---- MODULE Spec2Model ----
(***************************************************************************)
(* Crop-rotation engine: distribution resolver, category rotation          *)
(* (generate_next_cycle) and history-weighted assignment (assign_crops),   *)
(* over the SQLite tables of database.py.                                  *)
(***************************************************************************)
EXTENDS Integers, Sequences, FiniteSets, TLC

(***************************************************************************)
(* Bounds of the model.                                                    *)
(***************************************************************************)
\* longest percentage list handed to resolve_distribution
MaxProfileLen == 3
\* largest total_beds handed to resolve_distribution
MaxTotalBeds == 4
\* sub-beds per bed of garden 1 in the rotation specifications
SubBedsPerBed == 2
\* largest cycle_plans.id the override form is sent for
MaxOverridePlanId == 2
\* largest distribution_profiles.id handed out before profile saves stop
MaxProfileId == 4
\* most cycles a garden holds before generation and bootstrap stop
MaxCycles == 2
\* largest cycle_plans.id handed out before inserts stop
MaxPlanId == 6

\* latest value of the clock that CURRENT_TIMESTAMP reads
MaxTimestamp == 1

\* most past cycles in the histories that the scoring specification draws
MaxHistory == 3

\* most past cycles in the histories of the look-back specification
MaxLookback == 6

\* most cycles garden 1 holds in the rotation-wrap specification
MaxRotateCycles == 6

\* beds of garden 1 in the allocator specification
AllocBeds == 3

\* Percentages the model draws from.  They are multiples of 25, so that
\* pct * total_beds / 100.0 is exactly representable in binary floating point
\* and the integer arithmetic below computes what the float code computes.
Percentages == {0, 25, 50, 75, 100}

VARIABLES
    rd_percentages,   \* resolve_distribution: argument percentages, a sequence of <<item, pct>>
    rd_total_beds,    \* resolve_distribution: argument total_beds
    rd_result,        \* resolve_distribution: the returned list of <<item, count>>
    rd_done,          \* TRUE once resolve_distribution has returned
    sub_beds,         \* table sub_beds: sequence indexed by id
    cycle_plans,      \* table cycle_plans: set of rows
    next_plan_id,     \* next AUTOINCREMENT id of cycle_plans
    rotation_sequence,\* table rotation_sequence: categories ordered by position
    cycles_per_year,  \* settings['cycles_per_year']
    current_cycle,    \* settings['current_cycle']
    distribution_profiles, \* table distribution_profiles: set of rows
    distribution_defaults, \* settings['distribution_defaults_<garden_id>'], by garden
    ret,              \* what the engine call just made returned (NoReturn after any other operation)
    calls,            \* engine calls in flight: one record per caller
    write_lock,       \* the caller whose connection holds SQLite's write lock, 0 if none
    clock             \* what CURRENT_TIMESTAMP evaluates to

rd_vars == <<rd_percentages, rd_total_beds, rd_result, rd_done>>
db_vars == <<sub_beds, cycle_plans, next_plan_id, rotation_sequence,
             cycles_per_year, current_cycle, distribution_profiles,
             distribution_defaults>>
gen_vars == <<calls, write_lock>>
vars == <<rd_vars, db_vars, ret, gen_vars, clock>>

(***************************************************************************)
(* Small helpers on sequences.                                             *)
(***************************************************************************)
RECURSIVE SumSeq(_)
SumSeq(s) == IF s = <<>> THEN 0 ELSE Head(s) + SumSeq(Tail(s))

Min(a, b) == IF a < b THEN a ELSE b

(***************************************************************************)
(* resolve_distribution (rotation_engine.py 225-266).                      *)
(***************************************************************************)
\* math.floor(pct * total_beds / 100.0)
FloorCountCeil(pct, total_beds) == (pct * total_beds + 99) \div 100
FloorCount(pct, total_beds) == (pct * total_beds) \div 100

\* frac = raw - math.floor(raw), in hundredths of a bed
FracPart(pct, total_beds) == (pct * total_beds) % 100

\* fractions.sort(reverse=True) on tuples (frac, i): the tuple (fa, ia) comes
\* before (fb, ib) iff it is the greater tuple
FractionBeforeStable(fa, ia, fb, ib) == fa > fb \/ (fa = fb /\ ia < ib)
FractionBefore(fa, ia, fb, ib) == fa > fb \/ (fa = fb /\ ia > ib)

\* position (from 0) of item i in the sorted list fractions
FractionRank(percentages, total_beds, i) ==
    Cardinality({k \in 1..Len(percentages) :
        FractionBefore(FracPart(percentages[k][2], total_beds), k,
                       FracPart(percentages[i][2], total_beds), i)})

\* number of units handed out: range(min(remainder, len(fractions)))
HandedOutAll(remainder, n) == remainder
HandedOut(remainder, n) == Min(remainder, n)

resolve_distribution(percentages, total_beds) ==
    IF percentages = <<>> \/ total_beds = 0
    THEN [i \in 1..Len(percentages) |-> <<percentages[i][1], 0>>]
    ELSE LET n == Len(percentages)
             floors == [i \in 1..n |-> FloorCount(percentages[i][2], total_beds)]
             allocated == SumSeq(floors)
             remainder == total_beds - allocated
         IN [i \in 1..n |->
                <<percentages[i][1],
                  floors[i] +
                  (IF remainder > 0
                      /\ FractionRank(percentages, total_beds, i) < HandedOut(remainder, n)
                   THEN 1 ELSE 0)>>]

(***************************************************************************)
(* The database (database.py init_db, seed_defaults).                      *)
(***************************************************************************)
\* SQL NULL / Python None in a category column, a crop column, a cycle
NULL == "NULL"
\* the values CURRENT_TIMESTAMP can have
Timestamps == 0..MaxTimestamp
NoCrop == 0
NoCycle == <<0, "">>

\* CHECK (category IN (...)) of tables crops and rotation_sequence
Categories == {"Feuille", "Graine", "Racine", "Fruit", "Couverture"}

\* seed_defaults: the rotation sequence of a fresh database
SeedSequence == <<"Feuille", "Graine", "Racine", "Fruit", "Couverture">>

Gardens == {1, 2}

\* create_garden: the sub_beds rows of a new garden, in insertion order
GardenRows(garden_id, beds, sub_beds_per_bed) ==
    [k \in 1..(beds * sub_beds_per_bed) |->
        [garden_id |-> garden_id,
         bed_number |-> ((k - 1) \div sub_beds_per_bed) + 1,
         sub_bed_position |-> ((k - 1) % sub_beds_per_bed) + 1,
         is_reserve |-> FALSE]]

\* no garden has a distribution_defaults_<garden_id> setting
NoDefaults == [g \in Gardens |-> <<>>]

\* a database after init_db (no sub-beds, no plans, no settings)
EmptyDatabase ==
    /\ sub_beds = <<>>
    /\ cycle_plans = {}
    /\ next_plan_id = 1
    /\ rotation_sequence = <<>>
    /\ cycles_per_year = "2"
    /\ current_cycle = NoCycle
    /\ distribution_profiles = {}
    /\ distribution_defaults = NoDefaults

NoReturn == [op |-> "none"]

\* the callers of generate_next_cycle (two requests served at once)
Procs == {1, 2}

\* a caller that is not inside generate_next_cycle.  The fields n_records and
\* raced are not data of the code: they record how many rows the call built
\* and whether it ran while a call of the other caller was running.
IdleCall ==
    [pc |-> "idle", garden_id |-> 0, prev_cycle |-> NoCycle, prev_plans |-> <<>>,
     categories |-> <<>>, new_cycle |-> NoCycle, pending |-> {},
     n_records |-> 0, fault |-> "none", ok |-> FALSE, error |-> NULL,
     raced |-> FALSE]

NoCalls ==
    /\ calls = [p \in Procs |-> IdleCall]
    /\ write_lock = 0

\* ids of the sub-beds of a garden
SubBedIds(sb, garden_id) == {i \in 1..Len(sb) : sb[i].garden_id = garden_id}

\* ORDER BY bed_number, sub_bed_position
PhysicalKey(sb, i) == sb[i].bed_number * (Len(sb) + 1) + sb[i].sub_bed_position

\* the elements of S as a sequence, ascending in key (a function on S)
RECURSIVE SortByKey(_, _)
SortByKey(S, key) ==
    IF S = {} THEN <<>>
    ELSE LET m == CHOOSE x \in S : \A y \in S : key[x] <= key[y]
         IN <<m>> \o SortByKey(S \ {m}, key)

\* get_sub_beds(garden_id, active_only=True): ids in physical order
get_sub_beds_active(sb, garden_id) ==
    LET S == {i \in SubBedIds(sb, garden_id) : ~sb[i].is_reserve}
    IN SortByKey(S, [i \in S |-> PhysicalKey(sb, i)])

(***************************************************************************)
(* Cycle identifiers: <<year, suffix>> stands for the string year ++ suffix *)
(***************************************************************************)
Suffixes == <<"", "A", "B", "C", "Q1", "Q2", "Q3", "Q4">>

\* position of a suffix in string order ("" < "A" < "B" < "C" < "Q1" < ...)
SuffixRank(suffix) == CHOOSE k \in 1..Len(Suffixes) : Suffixes[k] = suffix

\* string comparison a < b of two identifiers with four-digit years
CycleLess(a, b) ==
    a[1] < b[1] \/ (a[1] = b[1] /\ SuffixRank(a[2]) < SuffixRank(b[2]))

\* int(prev_cycle[5:]): the quarter digit, 0 where int() raises ValueError
QuarterOf(suffix) ==
    CASE suffix = "Q1" -> 1
      [] suffix = "Q2" -> 2
      [] suffix = "Q3" -> 3
      [] suffix = "Q4" -> 4
      [] OTHER -> 0

QuarterSuffix(q) == Suffixes[4 + q]

\* the exception compute_next_cycle_id raises instead of returning
ValueError == <<0, "ValueError">>

\* compute_next_cycle_id (rotation_engine.py 40-94)
compute_next_cycle_id_NoRoll(prev_cycle, cpy) ==
    LET year == prev_cycle[1]
        suffix == prev_cycle[2]
    IN CASE cpy = 1 -> <<year + 1, "">>
         [] cpy = 2 -> IF suffix = "A" THEN <<year, "B">> ELSE <<year, "A">>
         [] cpy = 3 -> IF suffix = "A" THEN <<year, "B">>
                       ELSE IF suffix = "B" THEN <<year, "C">>
                       ELSE <<year, "A">>
         [] cpy = 4 -> IF QuarterOf(suffix) = 0 THEN ValueError
                       ELSE IF QuarterOf(suffix) < 4
                            THEN <<year, QuarterSuffix(QuarterOf(suffix) + 1)>>
                            ELSE <<year, "Q1">>
         [] OTHER -> ValueError
compute_next_cycle_id(prev_cycle, cpy) ==
    LET year == prev_cycle[1]
        suffix == prev_cycle[2]
    IN CASE cpy = 1 -> <<year + 1, "">>
         [] cpy = 2 -> IF suffix = "A" THEN <<year, "B">> ELSE <<year + 1, "A">>
         [] cpy = 3 -> IF suffix = "A" THEN <<year, "B">>
                       ELSE IF suffix = "B" THEN <<year, "C">>
                       ELSE <<year + 1, "A">>
         [] cpy = 4 -> IF QuarterOf(suffix) = 0 THEN ValueError
                       ELSE IF QuarterOf(suffix) < 4
                            THEN <<year, QuarterSuffix(QuarterOf(suffix) + 1)>>
                            ELSE <<year + 1, "Q1">>
         [] OTHER -> ValueError

(***************************************************************************)
(* Table cycle_plans.                                                      *)
(***************************************************************************)
\* SELECT ... WHERE garden_id = ? AND cycle = ?
PlansOf(plans, garden_id, cycle) ==
    {r \in plans : r.garden_id = garden_id /\ r.cycle = cycle}

\* SELECT DISTINCT cycle FROM cycle_plans WHERE garden_id = ?
CyclesOf(plans, garden_id) ==
    {r.cycle : r \in {x \in plans : x.garden_id = garden_id}}

\* ... ORDER BY cycle DESC LIMIT 1 (get_latest_cycle), NoCycle if no row
get_latest_cycle(plans, garden_id) ==
    LET S == CyclesOf(plans, garden_id)
    IN IF S = {} THEN NoCycle
       ELSE CHOOSE c \in S : \A d \in S : ~CycleLess(c, d)

\* UNIQUE(sub_bed_id, cycle): does inserting rec raise IntegrityError?
UniqueConflictNone(plans, rec) == FALSE
UniqueConflict(plans, rec) ==
    \E r \in plans : r.sub_bed_id = rec.sub_bed_id /\ r.cycle = rec.cycle

\* a row of cycle_plans from a record, the id it is given and the
\* CURRENT_TIMESTAMP that the column defaults of created_at and updated_at
\* evaluate to
PlanRow(rec, id, timestamp) ==
    [id |-> id,
     sub_bed_id |-> rec.sub_bed_id,
     garden_id |-> rec.garden_id,
     cycle |-> rec.cycle,
     planned_category |-> rec.planned_category,
     planned_crop_id |-> rec.planned_crop_id,
     actual_category |-> rec.actual_category,
     actual_crop_id |-> rec.actual_crop_id,
     is_override |-> rec.is_override,
     created_at |-> timestamp,
     updated_at |-> timestamp]

\* executemany("INSERT INTO cycle_plans ..."): the table after inserting the
\* records in order with ids id, id+1, ...; ok is FALSE when a record raised
\* IntegrityError (the rows inserted before it are still in the transaction)
RECURSIVE InsertMany(_, _, _, _)
InsertMany(plans, records, id, timestamp) ==
    IF records = <<>> THEN [ok |-> TRUE, plans |-> plans, next_id |-> id]
    ELSE IF UniqueConflict(plans, Head(records))
         THEN [ok |-> FALSE, plans |-> plans, next_id |-> id]
         ELSE InsertMany(plans \cup {PlanRow(Head(records), id, timestamp)},
                         Tail(records), id + 1, timestamp)

\* executemany("INSERT OR REPLACE INTO cycle_plans ..."): a conflicting row is
\* deleted before the new one is inserted (create_cycle_plans_batch)
RECURSIVE create_cycle_plans_batch(_, _, _, _)
create_cycle_plans_batch(plans, records, id, timestamp) ==
    IF records = <<>> THEN plans
    ELSE LET rec == Head(records)
             kept == {r \in plans :
                        ~(r.sub_bed_id = rec.sub_bed_id /\ r.cycle = rec.cycle)}
         IN create_cycle_plans_batch(kept \cup {PlanRow(rec, id, timestamp)},
                                     Tail(records), id + 1, timestamp)

(***************************************************************************)
(* generate_next_cycle (rotation_engine.py 97-222).                        *)
(***************************************************************************)
Range(seq) == {seq[i] : i \in 1..Len(seq)}

\* the most recent plan of every slot of the garden, whatever its cycle
PrevPlansLastKnown(plans, sb, garden_id, prev_cycle) ==
    LET S == {r \in plans :
                 /\ r.garden_id = garden_id
                 /\ r.sub_bed_id \in 1..Len(sb)
                 /\ \A q \in plans :
                       (q.garden_id = garden_id /\ q.sub_bed_id = r.sub_bed_id)
                          => ~CycleLess(r.cycle, q.cycle)}
        joined == {[plan |-> r, is_reserve |-> sb[r.sub_bed_id].is_reserve] : r \in S}
    IN SortByKey(joined,
                 [j \in joined |->
                     PhysicalKey(sb, j.plan.sub_bed_id) * 1000 + j.plan.id])

\* prev_plans: the plans of prev_cycle joined with sub_beds, in physical order
PrevPlans(plans, sb, garden_id, prev_cycle) ==
    LET S == {r \in PlansOf(plans, garden_id, prev_cycle) :
                 r.sub_bed_id \in 1..Len(sb)}
        joined == {[plan |-> r, is_reserve |-> sb[r.sub_bed_id].is_reserve] : r \in S}
    IN SortByKey(joined,
                 [j \in joined |->
                     PhysicalKey(sb, j.plan.sub_bed_id) * 1000 + j.plan.id])

\* next_category_map: category -> next category, wrapping at the end
IndexOf(categories, cat) == CHOOSE i \in 1..Len(categories) : categories[i] = cat
next_category_map_NoWrap(categories) ==
    [cat \in Range(categories) |->
        categories[Min(IndexOf(categories, cat) + 1, Len(categories))]]
next_category_map(categories) ==
    [cat \in Range(categories) |->
        categories[(IndexOf(categories, cat) % Len(categories)) + 1]]

\* effective_cat = plan['actual_category'] or plan['planned_category']
EffectiveCategoryPlanned(plan) == plan.planned_category
EffectiveCategory(plan) ==
    IF plan.actual_category # NULL THEN plan.actual_category
    ELSE plan.planned_category

\* next_cat of one plan, with the fallback to the first category
NextCategory(plan, categories) ==
    LET effective_cat == EffectiveCategory(plan)
    IN IF effective_cat # NULL /\ effective_cat \in Range(categories)
       THEN next_category_map(categories)[effective_cat]
       ELSE IF categories # <<>> THEN categories[1] ELSE NULL

\* Step 7: is this joined row skipped?
SkipReserveNever(joined) == FALSE
SkipReserve(joined) == joined.is_reserve

\* new_records: one record per non-reserve plan of prev_plans
RECURSIVE NewRecords(_, _, _, _)
NewRecords(prev_plans, garden_id, new_cycle, categories) ==
    IF prev_plans = <<>> THEN <<>>
    ELSE LET j == Head(prev_plans)
             rest == NewRecords(Tail(prev_plans), garden_id, new_cycle, categories)
         IN IF SkipReserve(j) THEN rest
            ELSE <<[sub_bed_id |-> j.plan.sub_bed_id,
                    garden_id |-> garden_id,
                    cycle |-> new_cycle,
                    planned_category |-> NextCategory(j.plan, categories),
                    planned_crop_id |-> NoCrop,
                    actual_category |-> NULL,
                    actual_crop_id |-> NoCrop,
                    is_override |-> FALSE]>> \o rest

\* int(get_setting('cycles_per_year', '2')) for the values the model stores
CadenceValues == {"1", "2", "3", "4", "5"}
\* the values the settings form and direct calls store in the rotation model
CadenceChoices == {"1", "5"}
ParseInt(str) ==
    CASE str = "1" -> 1
      [] str = "2" -> 2
      [] str = "3" -> 3
      [] str = "4" -> 4
      [] str = "5" -> 5

\* Step 8: INSERT OR REPLACE INTO settings ('current_cycle', new_cycle); the
\* settings table has one row per key, whatever the garden
SetCurrentCycleKeep(cur, new_cycle) == cur
SetCurrentCycle(cur, new_cycle) == new_cycle

\* what a call returns and what it leaves in the database
GenFailure(garden_id, error, plans, nid, cur) ==
    [ok |-> FALSE, error |-> error, new_cycle |-> NoCycle,
     plans |-> plans, next_id |-> nid, current_cycle |-> cur]

\* the whole call, run without interruption and without storage faults
generate_next_cycle(plans, sb, categories, cpy, nid, cur, garden_id, timestamp) ==
    LET prev_cycle == get_latest_cycle(plans, garden_id)
        prev_plans == PrevPlans(plans, sb, garden_id, prev_cycle)
        new_cycle == compute_next_cycle_id(prev_cycle, ParseInt(cpy))
        new_records == NewRecords(prev_plans, garden_id, new_cycle, categories)
        ins == InsertMany(plans, new_records, nid, timestamp)
    IN IF prev_cycle = NoCycle
       THEN GenFailure(garden_id, "NoPriorCycle", plans, nid, cur)
       ELSE IF prev_plans = <<>>
       THEN GenFailure(garden_id, "EmptyCycle", plans, nid, cur)
       ELSE IF categories = <<>>
       THEN GenFailure(garden_id, "SequenceNotConfigured", plans, nid, cur)
       ELSE IF new_cycle = ValueError
       THEN GenFailure(garden_id, "Exception", plans, nid, cur)
       ELSE IF PlansOf(plans, garden_id, new_cycle) # {}
       THEN GenFailure(garden_id, "CycleAlreadyExists", plans, nid, cur)
       ELSE IF ~ins.ok
       THEN GenFailure(garden_id, "Exception", plans, nid, cur)
       ELSE [ok |-> TRUE, error |-> NULL, new_cycle |-> new_cycle,
             plans |-> ins.plans, next_id |-> ins.next_id,
             current_cycle |-> SetCurrentCycle(cur, new_cycle)]

(***************************************************************************)
(* Specification SpecResolve: resolve_distribution called once on an       *)
(* arbitrary bounded input.                                                *)
(***************************************************************************)
PercentageLists ==
    UNION {[1..n -> Percentages] : n \in 0..MaxProfileLen}

InitResolve ==
    /\ \E pl \in PercentageLists :
          rd_percentages = [i \in 1..Len(pl) |-> <<i, pl[i]>>]
    /\ rd_total_beds \in 0..MaxTotalBeds
    /\ rd_result = <<>>
    /\ rd_done = FALSE
    /\ EmptyDatabase
    /\ ret = NoReturn
    /\ NoCalls
    /\ clock = 0

CallResolve ==
    /\ ~rd_done
    /\ rd_result' = resolve_distribution(rd_percentages, rd_total_beds)
    /\ rd_done' = TRUE
    /\ UNCHANGED <<rd_percentages, rd_total_beds>>
    /\ UNCHANGED <<db_vars, ret, gen_vars, clock>>

NextResolve == CallResolve

SpecResolve == InitResolve /\ [][NextResolve]_vars

(***************************************************************************)
(* Claims about resolve_distribution (checked under SpecResolve).          *)
(***************************************************************************)
RdLen == Len(rd_percentages)
RdPctSum == SumSeq([i \in 1..RdLen |-> rd_percentages[i][2]])
RdCountSum == SumSeq([i \in 1..Len(rd_result) |-> rd_result[i][2]])
RdFloor(i) == (rd_percentages[i][2] * rd_total_beds) \div 100
RdFrac(i) == (rd_percentages[i][2] * rd_total_beds) % 100
RdShortfall == rd_total_beds - SumSeq([i \in 1..RdLen |-> RdFloor(i)])
RdExtra(i) == rd_result[i][2] - RdFloor(i)

\* one count per input item, each a non-negative integer
RdOneCountPerItem ==
    /\ Len(rd_result) = RdLen
    /\ \A i \in 1..RdLen :
          /\ rd_result[i][1] = rd_percentages[i][1]
          /\ rd_result[i][2] \in Nat

RdFloorsPlusUnits ==
    /\ Len(rd_result) = RdLen
    /\ \A i \in 1..RdLen : RdExtra(i) \in {0, 1}
    /\ Cardinality({i \in 1..RdLen : RdExtra(i) = 1}) =
          (IF RdShortfall > 0 THEN Min(RdShortfall, RdLen) ELSE 0)

\* C2 as stated: floors plus units to the largest fractional remainders, a tie
\* between equal remainders going to the item that comes EARLIER in the input.
C2_TieEarlierFirst ==
    (rd_done /\ RdLen > 0 /\ rd_total_beds > 0) =>
        /\ RdFloorsPlusUnits
        /\ \A i, j \in 1..RdLen :
              (RdExtra(j) = 1 /\ RdExtra(i) = 0) =>
                  (RdFrac(j) > RdFrac(i) \/ (RdFrac(j) = RdFrac(i) /\ j < i))

\* C2 as amended: floors plus min(shortfall, items) units, one per item, in
\* descending order of fractional remainder, a tie between equal remainders
\* going to the item that comes LATER in the input.
C2_TieLaterFirst ==
    (rd_done /\ RdLen > 0 /\ rd_total_beds > 0) =>
        /\ RdFloorsPlusUnits
        /\ \A i, j \in 1..RdLen :
              (RdExtra(j) = 1 /\ RdExtra(i) = 0) =>
                  (RdFrac(j) > RdFrac(i) \/ (RdFrac(j) = RdFrac(i) /\ j > i))

\* C2 witness: two items tie on the fractional remainder and only the later
\* one receives a unit.
C2_Witness ==
    /\ rd_done
    /\ \E i, j \in 1..RdLen :
          /\ i < j
          /\ RdFrac(i) = RdFrac(j)
          /\ RdExtra(j) = 1
          /\ RdExtra(i) = 0

(***************************************************************************)
(* Specification Spec: the operations on the database, one call at a time. *)
(* Two gardens: garden 1 has one bed of SubBedsPerBed sub-beds, garden 2   *)
(* has one bed of one sub-bed.                                             *)
(***************************************************************************)
\* what the bootstrap form offers for one sub-bed: <<category, crop>>
FormChoices == {<<"", NoCrop>>, <<"Feuille", 1>>, <<"Couverture", NoCrop>>}

\* cycle identifiers typed into the bootstrap form
BootstrapCycles == {<<2025, "A">>}

\* what the override form sends: <<actual_category, actual_crop_id>>
OverrideChoices == {<<"Racine", 2>>}

\* sub-beds whose reserve flag the operator changes
ReserveChoices == {1}

\* rotation sequences handed to save_rotation_sequence
SequenceChoices == {<<>>, <<"Graine", "Feuille">>, SeedSequence}

Init ==
    /\ rd_percentages = <<>>
    /\ rd_total_beds = 0
    /\ rd_result = <<>>
    /\ rd_done = FALSE
    /\ sub_beds = GardenRows(1, 1, SubBedsPerBed) \o GardenRows(2, 1, 1)
    /\ cycle_plans = {}
    /\ next_plan_id = 1
    /\ rotation_sequence = SeedSequence
    /\ cycles_per_year = "2"
    /\ current_cycle = NoCycle
    /\ distribution_profiles = {}
    /\ distribution_defaults = NoDefaults
    /\ ret = NoReturn
    /\ NoCalls
    /\ clock = 0

\* routes/cycle.py bootstrap_save
BootstrapSave(garden_id, cycle_input, form) ==
    LET active_beds == get_sub_beds_active(sub_beds, garden_id)
        errors == {k \in 1..Len(active_beds) : form[active_beds[k]][1] = ""}
        records == [k \in 1..Len(active_beds) |->
                       [sub_bed_id |-> active_beds[k],
                        garden_id |-> garden_id,
                        cycle |-> cycle_input,
                        planned_category |-> form[active_beds[k]][1],
                        planned_crop_id |-> form[active_beds[k]][2],
                        actual_category |-> form[active_beds[k]][1],
                        actual_crop_id |-> form[active_beds[k]][2],
                        is_override |-> FALSE]]
    IN /\ next_plan_id + Len(active_beds) - 1 <= MaxPlanId
       /\ Cardinality(CyclesOf(cycle_plans, garden_id) \cup {cycle_input}) <= MaxCycles
       /\ IF errors # {}
          THEN /\ ret' = NoReturn
               /\ UNCHANGED db_vars
          ELSE /\ cycle_plans' = create_cycle_plans_batch(cycle_plans, records, next_plan_id,
                                                        clock)
               /\ next_plan_id' = next_plan_id + Len(records)
               /\ current_cycle' = cycle_input
               /\ ret' = NoReturn
               /\ UNCHANGED <<sub_beds, rotation_sequence, cycles_per_year,
                              distribution_profiles, distribution_defaults>>
       /\ UNCHANGED <<rd_vars, clock, gen_vars>>

\* rotation_engine.py generate_next_cycle, called with no other call running,
\* while the garden holds fewer than max_cycles cycles
GenerateBounded(garden_id, max_cycles, max_plan_id) ==
    LET out == generate_next_cycle(cycle_plans, sub_beds, rotation_sequence,
                                   cycles_per_year, next_plan_id, current_cycle,
                                   garden_id, clock)
    IN /\ Cardinality(CyclesOf(cycle_plans, garden_id)) < max_cycles
       /\ out.next_id - 1 <= max_plan_id
       /\ cycle_plans' = out.plans
       /\ next_plan_id' = out.next_id
       /\ current_cycle' = out.current_cycle
       /\ ret' = [op |-> "generate_next_cycle", garden_id |-> garden_id,
                  ok |-> out.ok, error |-> out.error, new_cycle |-> out.new_cycle]
       /\ UNCHANGED <<sub_beds, rotation_sequence, cycles_per_year,
                      distribution_profiles, distribution_defaults>>
       /\ UNCHANGED <<rd_vars, clock, gen_vars>>

GenerateNextCycle(garden_id) == GenerateBounded(garden_id, MaxCycles, MaxPlanId)

\* database.py toggle_sub_bed_reserve
ToggleSubBedReserve(sub_bed_id, is_reserve) ==
    /\ sub_bed_id \in 1..Len(sub_beds)
    /\ sub_beds' = [sub_beds EXCEPT ![sub_bed_id].is_reserve = is_reserve]
    /\ ret' = NoReturn
    /\ UNCHANGED <<cycle_plans, next_plan_id, rotation_sequence, cycles_per_year,
                   current_cycle, distribution_profiles, distribution_defaults>>
    /\ UNCHANGED <<rd_vars, clock, gen_vars>>

\* update_cycle_plan_override, called by routes/main.py map_override: the
\* operator's actual category and crop are recorded on one plan row
update_cycle_plan_override(plans, plan_id, actual_category, actual_crop_id) ==
    {IF r.id = plan_id
     THEN [r EXCEPT !.actual_category = actual_category,
                    !.actual_crop_id = actual_crop_id,
                    !.is_override = TRUE]
     ELSE r : r \in plans}

MapOverride(plan_id, choice) ==
    /\ \E r \in cycle_plans : r.id = plan_id
    /\ cycle_plans' = update_cycle_plan_override(cycle_plans, plan_id,
                                                 choice[1], choice[2])
    /\ ret' = NoReturn
    /\ UNCHANGED <<sub_beds, next_plan_id, rotation_sequence, cycles_per_year,
                   current_cycle, distribution_profiles, distribution_defaults>>
    /\ UNCHANGED <<rd_vars, clock, gen_vars>>

\* database.py save_rotation_sequence
SaveRotationSequence(ordered_categories) ==
    /\ rotation_sequence' = ordered_categories
    /\ ret' = NoReturn
    /\ UNCHANGED <<sub_beds, cycle_plans, next_plan_id, cycles_per_year,
                   current_cycle, distribution_profiles, distribution_defaults>>
    /\ UNCHANGED <<rd_vars, clock, gen_vars>>

\* database.py update_setting('cycles_per_year', value)
UpdateSettingCyclesPerYear(value) ==
    /\ cycles_per_year' = value
    /\ ret' = NoReturn
    /\ UNCHANGED <<sub_beds, cycle_plans, next_plan_id, rotation_sequence,
                   current_cycle, distribution_profiles, distribution_defaults>>
    /\ UNCHANGED <<rd_vars, clock, gen_vars>>

\* a garden that has no cycle yet is bootstrapped
FirstBootstrap(garden_id, cycle_input, form) ==
    /\ CyclesOf(cycle_plans, garden_id) = {}
    /\ BootstrapSave(garden_id, cycle_input, form)

Next ==
    \/ \E g \in Gardens, c \in BootstrapCycles :
          \E form \in [SubBedIds(sub_beds, g) -> FormChoices] :
             FirstBootstrap(g, c, form)
    \/ \E g \in Gardens : GenerateNextCycle(g)
    \/ \E s \in ReserveChoices, b \in BOOLEAN : ToggleSubBedReserve(s, b)
    \/ \E id \in 1..MaxOverridePlanId, ch \in OverrideChoices : MapOverride(id, ch)
    \/ \E seq \in SequenceChoices : SaveRotationSequence(seq)
    \/ \E v \in CadenceChoices : UpdateSettingCyclesPerYear(v)

Spec == Init /\ [][Next]_vars

(***************************************************************************)
(* Claims about generate_next_cycle called alone (checked under Spec).     *)
(***************************************************************************)
\* the step is a generate_next_cycle call that returned (new_cycle, None)
GenSucceeded == ret'.op = "generate_next_cycle" /\ ret'.ok

\* the successor of cat in the sequence, the first category if cat is not in it
Successor(categories, cat) ==
    IF \E i \in 1..Len(categories) : categories[i] = cat
    THEN LET i == CHOOSE k \in 1..Len(categories) : categories[k] = cat
         IN IF i = Len(categories) THEN categories[1] ELSE categories[i + 1]
    ELSE categories[1]

\* actual_category if set, else planned_category
EffectiveOf(r) ==
    IF r.actual_category # NULL THEN r.actual_category ELSE r.planned_category

\* rows of the table that the step created (their ids did not exist before)
CreatedRows == {r \in cycle_plans' : ~\E q \in cycle_plans : q.id = r.id}

\* C3: when generate_next_cycle succeeds, every non-reserve slot with a row in
\* the garden's most recent cycle gets exactly one row in the new cycle; its
\* planned category is the successor of the slot's effective category (the
\* first category if that one is not in the sequence), its crops and actual
\* category are null and its override flag is false.
C3_RotatedRows ==
    [][GenSucceeded =>
        LET g == ret'.garden_id
            prev == get_latest_cycle(cycle_plans, g)
        IN \A src \in PlansOf(cycle_plans, g, prev) :
              ~sub_beds[src.sub_bed_id].is_reserve =>
                 LET rows == {r \in cycle_plans' :
                                 /\ r.sub_bed_id = src.sub_bed_id
                                 /\ r.cycle = ret'.new_cycle}
                 IN /\ Cardinality(rows) = 1
                    /\ \A r \in rows :
                          /\ r \in CreatedRows
                          /\ r.garden_id = g
                          /\ r.planned_category =
                                Successor(rotation_sequence, EffectiveOf(src))
                          /\ r.planned_crop_id = NoCrop
                          /\ r.actual_category = NULL
                          /\ r.actual_crop_id = NoCrop
                          /\ r.is_override = FALSE
    ]_vars

\* C3 witness: a generated row whose category follows the overridden actual
\* category of the source row, not its planned category.
C3_Witness ==
    /\ ret.op = "generate_next_cycle"
    /\ ret.ok
    /\ \E src, r \in cycle_plans :
          /\ src.garden_id = ret.garden_id
          /\ src.cycle # ret.new_cycle
          /\ src.is_override
          /\ src.actual_category # src.planned_category
          /\ r.sub_bed_id = src.sub_bed_id
          /\ r.cycle = ret.new_cycle
          /\ r.planned_category = Successor(rotation_sequence, src.actual_category)
          /\ r.planned_category # Successor(rotation_sequence, src.planned_category)

\* C4: no step creates a row for a slot that is flagged reserve when the row
\* is created, and a slot that is reserve in the source cycle has no row in
\* the generated cycle.
C4_NoRowForReserve ==
    [][/\ \A r \in CreatedRows : ~sub_beds'[r.sub_bed_id].is_reserve
       /\ GenSucceeded =>
             \A src \in PlansOf(cycle_plans, ret'.garden_id,
                                get_latest_cycle(cycle_plans, ret'.garden_id)) :
                sub_beds[src.sub_bed_id].is_reserve =>
                   ~\E r \in cycle_plans' :
                        r.sub_bed_id = src.sub_bed_id /\ r.cycle = ret'.new_cycle
    ]_vars

\* C4 witness: a generated cycle that has a row for one slot of the garden and
\* none for another slot, which is reserve and has a row in the source cycle.
C4_Witness ==
    /\ ret.op = "generate_next_cycle"
    /\ ret.ok
    /\ \E src \in cycle_plans :
          /\ src.garden_id = ret.garden_id
          /\ src.cycle # ret.new_cycle
          /\ sub_beds[src.sub_bed_id].is_reserve
          /\ ~\E r \in cycle_plans :
                r.sub_bed_id = src.sub_bed_id /\ r.cycle = ret.new_cycle
    /\ \E r \in cycle_plans :
          r.garden_id = ret.garden_id /\ r.cycle = ret.new_cycle

\* what the application reads as the current cycle of a garden: the settings
\* table holds one 'current_cycle' row, so every garden reads the same value
GardenCurrentCycle(garden_id) == current_cycle

\* the rows and settings a successful generate_next_cycle(g) leaves alone or
\* writes: old rows are kept as they were, created rows belong to g's new
\* cycle, settings['current_cycle'] is the new identifier, nothing else moves
GenFrame ==
    LET g == ret'.garden_id
    IN /\ cycle_plans \subseteq cycle_plans'
       /\ \A r \in cycle_plans' \ cycle_plans :
             r.garden_id = g /\ r.cycle = ret'.new_cycle
       /\ current_cycle' = ret'.new_cycle
       /\ UNCHANGED <<sub_beds, rotation_sequence, cycles_per_year,
                      distribution_profiles, distribution_defaults>>

Faults == {"none", "fault"}

\* except Exception: conn.rollback(); return None, message
Failed(c, error, fault) ==
    [c EXCEPT !.pc = "done", !.ok = FALSE, !.error = error, !.fault = fault,
              !.prev_plans = <<>>, !.categories = <<>>, !.pending = {}]

\* an exception that leaves generate_next_cycle (raised outside its try)
Raised(c, fault) == [c EXCEPT !.pc = "raised", !.fault = fault]

\* the lock a rollback or a commit leaves behind
Released(p) == IF write_lock = p THEN 0 ELSE write_lock

\* a statement inside the try raised: rollback, failure result
FailCall(p, error, fault) ==
    /\ calls' = [calls EXCEPT ![p] = Failed(calls[p], error, fault)]
    /\ write_lock' = Released(p)
    /\ UNCHANGED <<db_vars, rd_vars, clock, ret>>

\* the call of a caller is between its entry and its return
InFlight(c) == c.pc \notin {"idle", "done", "raised"}

\* generate_next_cycle(garden_id) is entered
CallGenerate(p, garden_id) ==
    /\ calls[p].pc \in {"idle", "done", "raised"}
    /\ Cardinality(CyclesOf(cycle_plans, garden_id)) < MaxCycles
    /\ next_plan_id + Cardinality(SubBedIds(sub_beds, garden_id)) - 1 <= MaxPlanId
    /\ calls' = [q \in Procs |->
                    IF q = p
                    THEN [IdleCall EXCEPT
                             !.pc = "backup",
                             !.garden_id = garden_id,
                             !.raced = \E o \in Procs \ {p} : InFlight(calls[o])]
                    ELSE IF InFlight(calls[q])
                    THEN [calls[q] EXCEPT !.raced = TRUE]
                    ELSE calls[q]]
    /\ UNCHANGED <<db_vars, write_lock, rd_vars, clock, ret>>

\* Step 1, backup_db('pre_generate'): os.makedirs is outside backup_db's try,
\* a failing shutil.copy2 is swallowed and the call goes on without a backup
StepBackup(p, makedirs, copy2) ==
    /\ calls[p].pc = "backup"
    /\ calls' = [calls EXCEPT ![p] =
                    IF makedirs = "fault" THEN Raised(@, "backup")
                    ELSE [@ EXCEPT !.pc = "connect"]]
    /\ UNCHANGED <<db_vars, write_lock, rd_vars, clock, ret>>

\* conn = get_db(), before the try
StepConnect(p, fault) ==
    /\ calls[p].pc = "connect"
    /\ calls' = [calls EXCEPT ![p] =
                    IF fault = "fault" THEN Raised(@, "connect")
                    ELSE [@ EXCEPT !.pc = "read_latest"]]
    /\ UNCHANGED <<db_vars, write_lock, rd_vars, clock, ret>>

\* Step 2: SELECT DISTINCT cycle ... ORDER BY cycle DESC LIMIT 1
StepReadLatest(p, fault) ==
    /\ calls[p].pc = "read_latest"
    /\ LET prev_cycle == get_latest_cycle(cycle_plans, calls[p].garden_id)
       IN IF fault = "fault" THEN FailCall(p, "Exception", "storage")
          ELSE IF prev_cycle = NoCycle THEN FailCall(p, "NoPriorCycle", "none")
          ELSE /\ calls' = [calls EXCEPT ![p].pc = "read_plans",
                                         ![p].prev_cycle = prev_cycle]
               /\ UNCHANGED <<db_vars, write_lock, rd_vars, clock, ret>>

\* SELECT cp.*, sb.is_reserve FROM cycle_plans cp JOIN sub_beds sb ...
StepReadPlans(p, fault) ==
    /\ calls[p].pc = "read_plans"
    /\ LET prev_plans == PrevPlans(cycle_plans, sub_beds, calls[p].garden_id,
                                   calls[p].prev_cycle)
       IN IF fault = "fault" THEN FailCall(p, "Exception", "storage")
          ELSE IF prev_plans = <<>> THEN FailCall(p, "EmptyCycle", "none")
          ELSE /\ calls' = [calls EXCEPT ![p].pc = "read_sequence",
                                         ![p].prev_plans = prev_plans]
               /\ UNCHANGED <<db_vars, write_lock, rd_vars, clock, ret>>

\* Steps 3 and 4: SELECT * FROM rotation_sequence ORDER BY position
StepReadSequence(p, fault) ==
    /\ calls[p].pc = "read_sequence"
    /\ IF fault = "fault" THEN FailCall(p, "Exception", "storage")
       ELSE IF rotation_sequence = <<>>
       THEN FailCall(p, "SequenceNotConfigured", "none")
       ELSE /\ calls' = [calls EXCEPT ![p].pc = "compute",
                                      ![p].categories = rotation_sequence]
            /\ UNCHANGED <<db_vars, write_lock, rd_vars, clock, ret>>

\* Step 5: get_setting('cycles_per_year', '2') and compute_next_cycle_id
StepCompute(p, fault) ==
    /\ calls[p].pc = "compute"
    /\ LET new_cycle == compute_next_cycle_id(calls[p].prev_cycle,
                                              ParseInt(cycles_per_year))
       IN IF fault = "fault" THEN FailCall(p, "Exception", "storage")
          ELSE IF new_cycle = ValueError
          THEN /\ calls' = [calls EXCEPT ![p] =
                              [Failed(@, "Exception", "none")
                                  EXCEPT !.new_cycle = ValueError]]
               /\ write_lock' = Released(p)
               /\ UNCHANGED <<db_vars, rd_vars, clock, ret>>
          ELSE /\ calls' = [calls EXCEPT ![p].pc = "check_existing",
                                         ![p].new_cycle = new_cycle]
               /\ UNCHANGED <<db_vars, write_lock, rd_vars, clock, ret>>

\* SELECT COUNT(*) FROM cycle_plans WHERE garden_id = ? AND cycle = ?
StepCheckExisting(p, fault) ==
    /\ calls[p].pc = "check_existing"
    /\ IF fault = "fault" THEN FailCall(p, "Exception", "storage")
       ELSE IF PlansOf(cycle_plans, calls[p].garden_id, calls[p].new_cycle) # {}
       THEN FailCall(p, "CycleAlreadyExists", "none")
       ELSE /\ calls' = [calls EXCEPT ![p].pc = "insert"]
            /\ UNCHANGED <<db_vars, write_lock, rd_vars, clock, ret>>

\* Steps 6 and 7: build new_records and executemany(INSERT INTO cycle_plans).
\* The first inserted row takes the write lock; an empty list writes nothing.
StepInsert(p, fault) ==
    /\ calls[p].pc = "insert"
    /\ LET c == calls[p]
           new_records == NewRecords(c.prev_plans, c.garden_id, c.new_cycle,
                                     c.categories)
           ins == InsertMany(cycle_plans, new_records, next_plan_id, clock)
       IN IF fault = "fault" THEN FailCall(p, "Exception", "storage")
          ELSE IF new_records = <<>>
          THEN /\ calls' = [calls EXCEPT ![p].pc = "update_setting",
                                         ![p].prev_plans = <<>>]
               /\ UNCHANGED <<db_vars, write_lock, rd_vars, clock, ret>>
          ELSE /\ write_lock = 0
               /\ IF ~ins.ok THEN FailCall(p, "Exception", "none")
                  ELSE /\ calls' = [calls EXCEPT ![p].pc = "update_setting",
                                                 ![p].prev_plans = <<>>,
                                                 ![p].pending = ins.plans \ cycle_plans,
                                                 ![p].n_records = Len(new_records)]
                       /\ write_lock' = p
                       /\ UNCHANGED <<db_vars, rd_vars, clock, ret>>

\* a write that finds the lock held by the other connection until the busy
\* timeout runs out: sqlite3.OperationalError "database is locked"
StepLockTimeout(p) ==
    /\ calls[p].pc \in {"insert", "update_setting"}
    /\ write_lock \notin {0, p}
    /\ calls[p].pc = "insert" =>
          NewRecords(calls[p].prev_plans, calls[p].garden_id, calls[p].new_cycle,
                     calls[p].categories) # <<>>
    /\ FailCall(p, "Exception", "none")

\* Step 8: INSERT OR REPLACE INTO settings ('current_cycle', new_cycle)
StepUpdateSetting(p, fault) ==
    /\ calls[p].pc = "update_setting"
    /\ IF fault = "fault" THEN FailCall(p, "Exception", "storage")
       ELSE /\ write_lock \in {0, p}
            /\ calls' = [calls EXCEPT ![p].pc = "commit"]
            /\ write_lock' = p
            /\ UNCHANGED <<db_vars, rd_vars, clock, ret>>

\* conn.commit() and return new_cycle, None
StepCommit(p, fault) ==
    /\ calls[p].pc = "commit"
    /\ IF fault = "fault" THEN FailCall(p, "Exception", "storage")
       ELSE /\ cycle_plans' = cycle_plans \cup calls[p].pending
            /\ next_plan_id' = next_plan_id + Cardinality(calls[p].pending)
            /\ current_cycle' = SetCurrentCycle(current_cycle, calls[p].new_cycle)
            /\ calls' = [calls EXCEPT ![p].pc = "done", ![p].ok = TRUE,
                                      ![p].categories = <<>>, ![p].pending = {}]
            /\ write_lock' = Released(p)
            /\ UNCHANGED <<sub_beds, rotation_sequence, cycles_per_year,
                           distribution_profiles, distribution_defaults, rd_vars, clock, ret>>

\* no generate_next_cycle call is running
AllIdle == \A p \in Procs : calls[p].pc \in {"idle", "done", "raised"}

\* what the operator does between calls in this specification
GenFormChoices == {<<"Feuille", 1>>}
GenReserveChoices == {1, 2}

GenBootstrap ==
    /\ AllIdle
    /\ \E form \in [SubBedIds(sub_beds, 1) -> GenFormChoices] :
          FirstBootstrap(1, <<2025, "A">>, form)

GenToggle ==
    /\ AllIdle
    /\ \E s \in GenReserveChoices, b \in BOOLEAN : ToggleSubBedReserve(s, b)

GenSaveSequence ==
    /\ AllIdle
    /\ \E seq \in {<<>>, SeedSequence} : SaveRotationSequence(seq)

GenUpdateSetting ==
    /\ AllIdle
    /\ \E v \in {"2", "5"} : UpdateSettingCyclesPerYear(v)

NextGen ==
    \/ GenBootstrap
    \/ GenToggle
    \/ GenSaveSequence
    \/ GenUpdateSetting
    \/ \E p \in Procs, g \in Gardens : CallGenerate(p, g)
    \/ \E p \in Procs, f1, f2 \in Faults : StepBackup(p, f1, f2)
    \/ \E p \in Procs, f \in Faults : StepConnect(p, f)
    \/ \E p \in Procs, f \in Faults : StepReadLatest(p, f)
    \/ \E p \in Procs, f \in Faults : StepReadPlans(p, f)
    \/ \E p \in Procs, f \in Faults : StepReadSequence(p, f)
    \/ \E p \in Procs, f \in Faults : StepCompute(p, f)
    \/ \E p \in Procs, f \in Faults : StepCheckExisting(p, f)
    \/ \E p \in Procs, f \in Faults : StepInsert(p, f)
    \/ \E p \in Procs : StepLockTimeout(p)
    \/ \E p \in Procs, f \in Faults : StepUpdateSetting(p, f)
    \/ \E p \in Procs, f \in Faults : StepCommit(p, f)

SpecGen == Init /\ [][NextGen]_vars

(***************************************************************************)
(* Claims about generate_next_cycle under faults and with two callers      *)
(* (checked under SpecGen).                                                *)
(***************************************************************************)
Returned(c) == c.pc \in {"done", "raised"}

\* caller p leaves generate_next_cycle in this step
Leaves(p) == ~Returned(calls[p]) /\ Returned(calls'[p])

\* the call ended in one of the cases of C5: no prior cycle, an empty latest
\* cycle, an empty rotation sequence, an existing plan for the next
\* identifier, an unsupported cycles-per-year value, or a storage fault
FailureCase(c) ==
    \/ c.error \in {"NoPriorCycle", "EmptyCycle", "SequenceNotConfigured",
                    "CycleAlreadyExists"}
    \/ c.new_cycle = ValueError
    \/ c.fault # "none"

\* C5 as stated: in each of its cases the call returns a failure result and
\* leaves the cycle_plans rows and the current-cycle setting as they were.
C5_FailureResultStateKept ==
    [][\A p \in Procs :
          (Leaves(p) /\ FailureCase(calls'[p])) =>
              /\ calls'[p].pc = "done"
              /\ ~calls'[p].ok
              /\ cycle_plans' = cycle_plans
              /\ current_cycle' = current_cycle
    ]_vars

\* C9 as stated: no error of generate_next_cycle is thrown across the
\* operation boundary; every call that ends has returned a result.
C9_NeverThrown ==
    \A p \in Procs : calls[p].pc # "raised"

\* UNIQUE(sub_bed_id, cycle) holds of the committed table
OneRowPerSlotCycle(plans) ==
    \A r, q \in plans :
        (r.sub_bed_id = q.sub_bed_id /\ r.cycle = q.cycle) => r.id = q.id

\* rows enter the committed table only all at once, as the complete set of
\* rows of a call that returns success in the same step
NoPartialCycle ==
    cycle_plans' # cycle_plans =>
        \/ AllIdle /\ UNCHANGED calls
        \/ \E p \in Procs :
              /\ Leaves(p)
              /\ calls'[p].ok
              /\ Cardinality(calls[p].pending) = calls[p].n_records
              /\ cycle_plans' = cycle_plans \cup calls[p].pending

\* two calls for the same garden that ran interleaved and started from the
\* same source cycle
RacedPair(p, q) ==
    /\ p # q
    /\ calls[p].pc = "done"
    /\ calls[q].pc = "done"
    /\ calls[p].raced
    /\ calls[q].raced
    /\ calls[p].garden_id = calls[q].garden_id
    /\ calls[p].prev_cycle # NoCycle
    /\ calls[p].prev_cycle = calls[q].prev_cycle

\* C8 as stated: for two interleaved calls on one garden the loser returns a
\* failure result (never do both return success), no (slot, cycle) pair has
\* two rows, and no partially inserted cycle remains.
C8_LoserAlwaysFails ==
    [][/\ OneRowPerSlotCycle(cycle_plans')
       /\ NoPartialCycle
       /\ \A p, q \in Procs :
             RacedPair(p, q)' => ~(calls'[p].ok /\ calls'[q].ok)
    ]_vars

\* C8 as amended: of two interleaved calls on one garden that each have at
\* least one row to insert, at most one returns success; no (slot, cycle)
\* pair has two rows, and no partially inserted cycle remains.
C8_LoserWithRowsFails ==
    [][/\ OneRowPerSlotCycle(cycle_plans')
       /\ NoPartialCycle
       /\ \A p, q \in Procs :
             (RacedPair(p, q)' /\ calls'[p].ok /\ calls'[q].ok) =>
                 (calls'[p].n_records = 0 \/ calls'[q].n_records = 0)
    ]_vars

\* C8 witness: two calls raced from the same source cycle to the same new
\* identifier; one inserted its rows and succeeded, the other got past the
\* existing-cycle check and failed on its write.
C8_Witness ==
    \E p, q \in Procs :
        /\ RacedPair(p, q)
        /\ calls[p].ok
        /\ calls[p].n_records > 0
        /\ ~calls[q].ok
        /\ calls[q].new_cycle = calls[p].new_cycle
        /\ calls[q].error = "Exception"
        /\ calls[q].fault = "none"
        /\ PlansOf(cycle_plans, calls[p].garden_id, calls[p].new_cycle) # {}

(***************************************************************************)
(* assign_crops (rotation_engine.py 269-492).                              *)
(***************************************************************************)
LOOKBACK_CYCLES == 5
DIVERSITY_BONUS == 2

\* PENALTY_TABLE.get(cycles_ago, 0) and the species and family tables
PENALTY_TABLE(cycles_ago) ==
    CASE cycles_ago = 1 -> -50
      [] cycles_ago = 2 -> -30
      [] cycles_ago = 3 -> -15
      [] cycles_ago = 4 -> -5
      [] cycles_ago = 5 -> -1
      [] OTHER -> 0
SPECIES_PENALTY_TABLE(cycles_ago) ==
    CASE cycles_ago = 1 -> -35
      [] cycles_ago = 2 -> -20
      [] cycles_ago = 3 -> -10
      [] cycles_ago = 4 -> -3
      [] OTHER -> 0
FAMILY_PENALTY_TABLE(cycles_ago) ==
    CASE cycles_ago = 1 -> -20
      [] cycles_ago = 2 -> -10
      [] cycles_ago = 3 -> -5
      [] OTHER -> 0

\* table crops of the model, indexed by crops.id; family and species are the
\* columns the taxonomy query of assign_crops reads ('' when unknown)
Crops ==
    <<[category |-> "Feuille", family |-> "brassicaceae", species |-> "brassica oleracea"],
      [category |-> "Feuille", family |-> "brassicaceae", species |-> "brassica oleracea"],
      [category |-> "Feuille", family |-> "brassicaceae", species |-> "brassica rapa"],
      [category |-> "Graine", family |-> "", species |-> ""],
      [category |-> "Fruit", family |-> "solanaceae", species |-> "solanum lycopersicum"]>>

CropIds == 1..Len(Crops)

\* crop_to_family, crop_to_species, and the crops sharing them
crop_to_family(crop_id) == IF crop_id \in CropIds THEN Crops[crop_id].family ELSE ""
crop_to_species(crop_id) == IF crop_id \in CropIds THEN Crops[crop_id].species ELSE ""
same_family_crops(crop_id) ==
    IF crop_to_family(crop_id) = "" THEN {}
    ELSE {c \in CropIds : Crops[c].family = crop_to_family(crop_id)} \ {crop_id}
same_species_crops(crop_id) ==
    IF crop_to_species(crop_id) = "" THEN {}
    ELSE {c \in CropIds : Crops[c].species = crop_to_species(crop_id)} \ {crop_id}

\* the profile rows of one category in the order of the profiles query:
\* target_percentage DESC, rows of equal percentage in crop_id order (the
\* rows are read through the index of UNIQUE(garden_id, cycle, crop_id))
cat_profilesAnyCategory(profiles, garden_id, cycle, category) ==
    LET S == {d \in profiles : /\ d.garden_id = garden_id
                               /\ d.cycle = cycle
                               /\ d.crop_id \in CropIds}
    IN SortByKey(S, [d \in S |-> (0 - d.target_percentage) * 1000 + d.crop_id])
cat_profiles(profiles, garden_id, cycle, category) ==
    LET S == {d \in profiles : /\ d.garden_id = garden_id
                               /\ d.cycle = cycle
                               /\ d.crop_id \in CropIds
                               /\ Crops[d.crop_id].category = category}
    IN SortByKey(S, [d \in S |-> (0 - d.target_percentage) * 1000 + d.crop_id])

\* the plans query: rows of the cycle whose sub-bed is not reserve, in
\* physical order
AssignPlans(plans, sb, garden_id, cycle) ==
    LET S == {r \in PlansOf(plans, garden_id, cycle) :
                 r.sub_bed_id \in 1..Len(sb) /\ ~sb[r.sub_bed_id].is_reserve}
    IN SortByKey(S, [r \in S |-> PhysicalKey(sb, r.sub_bed_id) * 1000 + r.id])

\* position of a cycle identifier in string order
CycleKey(c) == c[1] * 10 + SuffixRank(c[2])

\* every older cycle of the garden, however far back
past_cyclesAll(plans, garden_id, cycle) ==
    LET all == CyclesOf(plans, garden_id)
        all_cycle_list == SortByKey(all, [c \in all |-> 0 - CycleKey(c)])
    IN IF cycle \in all
       THEN SelectSeq(all_cycle_list, LAMBDA c : CycleLess(c, cycle))
       ELSE all_cycle_list

\* past_cycles: up to LOOKBACK_CYCLES cycles that follow `cycle` in the list
\* of the garden's cycles sorted descending
past_cycles(plans, garden_id, cycle) ==
    LET all == CyclesOf(plans, garden_id)
        all_cycle_list == SortByKey(all, [c \in all |-> 0 - CycleKey(c)])
        older == IF cycle \in all
                 THEN SelectSeq(all_cycle_list, LAMBDA c : CycleLess(c, cycle))
                 ELSE all_cycle_list
    IN SubSeq(older, 1, Min(LOOKBACK_CYCLES, Len(older)))

\* COALESCE(actual_crop_id, planned_crop_id), COALESCE(actual_category, ...)
HistoryCrop(r) == IF r.actual_crop_id # NoCrop THEN r.actual_crop_id ELSE r.planned_crop_id
HistoryCategory(r) == IF r.actual_category # NULL THEN r.actual_category ELSE r.planned_category

\* what one history entry adds to the score of a bed for crop_id
EntryScoreFlat(past_crop_id, crop_id, cycles_ago) == DIVERSITY_BONUS
EntryScore(past_crop_id, crop_id, cycles_ago) ==
    IF past_crop_id = crop_id THEN PENALTY_TABLE(cycles_ago)
    ELSE IF past_crop_id \in same_species_crops(crop_id)
    THEN SPECIES_PENALTY_TABLE(cycles_ago)
    ELSE IF past_crop_id \in same_family_crops(crop_id)
    THEN FAMILY_PENALTY_TABLE(cycles_ago)
    ELSE DIVERSITY_BONUS

RECURSIVE SumScores(_, _, _)
SumScores(rows, crop_id, cycles_ago) ==
    IF rows = {} THEN 0
    ELSE LET h == CHOOSE r \in rows : TRUE
         IN EntryScore(HistoryCrop(h), crop_id, cycles_ago)
            + SumScores(rows \ {h}, crop_id, cycles_ago)

\* score of sub-bed sid for crop_id: the entries of its history that are in
\* this category, over the past cycles
BedScore(plans, garden_id, past, category, crop_id, sid) ==
    SumSeq([i \in 1..Len(past) |->
        SumScores({r \in PlansOf(plans, garden_id, past[i]) :
                      r.sub_bed_id = sid /\ HistoryCategory(r) = category},
                  crop_id, i)])

\* an update that also marks the row as overridden
SetPlannedCropAndOverride(plans, plan_ids, crop_id) ==
    {IF r.id \in plan_ids
     THEN [r EXCEPT !.planned_crop_id = crop_id, !.is_override = TRUE]
     ELSE r : r \in plans}

\* UPDATE cycle_plans SET planned_crop_id = ? WHERE id = ?
SetPlannedCrop(plans, plan_ids, crop_id) ==
    {IF r.id \in plan_ids THEN [r EXCEPT !.planned_crop_id = crop_id] ELSE r :
        r \in plans}

\* the reset of a category's beds before assignment
ResetPlannedCropKeep(plans, plan_ids) == plans
ResetPlannedCrop(plans, plan_ids) == SetPlannedCrop(plans, plan_ids, NoCrop)

\* is the bed still free for the crop being processed?
UnassignedAlways(sid, assigned_bed_ids) == TRUE
Unassigned(sid, assigned_bed_ids) == sid \notin assigned_bed_ids

\* scored_beds.sort(key=lambda x: (-x[0], x[1])): score descending, then
\* sub_bed_id ascending
scored_beds_keyDescendingId(score, sid) == (0 - score) * 1000 - sid
scored_beds_key(score, sid) == (0 - score) * 1000 + sid

\* the loop over crop_targets of one category
RECURSIVE AssignTargets(_, _, _, _, _)
AssignTargets(crop_targets, beds, assigned_bed_ids, plans, ctx) ==
    IF crop_targets = <<>> THEN plans
    ELSE LET crop_id == Head(crop_targets)[1]
             target_count == Head(crop_targets)[2]
             free == {b \in Range(beds) : Unassigned(b.sub_bed_id, assigned_bed_ids)}
             scored_beds ==
                 SortByKey(free,
                     [b \in free |->
                         scored_beds_key(
                             BedScore(plans, ctx.garden_id, ctx.past, ctx.category,
                                      crop_id, b.sub_bed_id),
                             b.sub_bed_id)])
             taken == SubSeq(scored_beds, 1, Min(target_count, Len(scored_beds)))
         IN IF target_count <= 0
            THEN AssignTargets(Tail(crop_targets), beds, assigned_bed_ids, plans, ctx)
            ELSE AssignTargets(Tail(crop_targets), beds,
                    assigned_bed_ids \cup {b.sub_bed_id : b \in Range(taken)},
                    SetPlannedCrop(plans, {b.id : b \in Range(taken)}, crop_id),
                    ctx)

\* the resolved counts taken from the last to the first
crop_targetsReversed(resolved) ==
    [k \in 1..Len(resolved) |-> resolved[Len(resolved) + 1 - k]]

\* crop_targets: the resolved counts sorted by count descending (stable)
crop_targets(resolved) ==
    LET S == 1..Len(resolved)
        order == SortByKey(S, [i \in S |-> (0 - resolved[i][2]) * 1000 + i])
    IN [k \in 1..Len(order) |-> resolved[order[k]]]

\* the loop over the categories of the rotation sequence
RECURSIVE AssignCategories(_, _, _, _, _, _)
AssignCategories(categories, all_plans, profiles, plans, garden_id, cycle) ==
    IF categories = <<>> THEN plans
    ELSE LET category == Head(categories)
             cat_beds == SelectSeq(all_plans, LAMBDA b : b.planned_category = category)
             reset == ResetPlannedCrop(plans, {b.id : b \in Range(cat_beds)})
             profs == cat_profiles(profiles, garden_id, cycle, category)
             pct_list == [k \in 1..Len(profs) |->
                             <<profs[k].crop_id, profs[k].target_percentage>>]
             resolved == resolve_distribution(pct_list, Len(cat_beds))
             ctx == [garden_id |-> garden_id, category |-> category,
                     past |-> past_cycles(plans, garden_id, cycle)]
         IN IF cat_beds = <<>>
            THEN AssignCategories(Tail(categories), all_plans, profiles, plans,
                                  garden_id, cycle)
            ELSE IF profs = <<>>
            THEN AssignCategories(Tail(categories), all_plans, profiles, reset,
                                  garden_id, cycle)
            ELSE AssignCategories(Tail(categories), all_plans, profiles,
                    AssignTargets(crop_targets(resolved), cat_beds, {}, reset, ctx),
                    garden_id, cycle)

\* the table after assign_crops(garden_id, cycle) has committed
assign_crops(plans, sb, categories, profiles, garden_id, cycle) ==
    AssignCategories(categories, AssignPlans(plans, sb, garden_id, cycle),
                     profiles, plans, garden_id, cycle)

(***************************************************************************)
(* Specification SpecAssign: profiles saved and assign_crops called on the *)
(* cycles of garden 1, between bootstraps, generations, reserve changes    *)
(* and changes of the rotation sequence.                                   *)
(***************************************************************************)
\* AUTOINCREMENT: the largest id handed out so far
LastProfileId(rows) ==
    IF rows = {} THEN 0
    ELSE CHOOSE m \in {d.id : d \in rows} : \A d \in rows : d.id <= m

\* database.py save_distribution_profiles: the rows of (garden_id, cycle) are
\* deleted and the new ones inserted in list order (ids ascending)
save_distribution_profiles(rows, garden_id, cycle, profiles) ==
    LET kept == {d \in rows : ~(d.garden_id = garden_id /\ d.cycle = cycle)}
        last == LastProfileId(rows)
    IN kept \cup {[id |-> last + k, garden_id |-> garden_id, cycle |-> cycle,
                   crop_id |-> profiles[k][1],
                   target_percentage |-> profiles[k][2]] : k \in 1..Len(profiles)}

SaveDistributionProfiles(garden_id, cycle, profiles) ==
    /\ LastProfileId(distribution_profiles) + Len(profiles) <= MaxProfileId
    /\ distribution_profiles' =
          save_distribution_profiles(distribution_profiles, garden_id, cycle, profiles)
    /\ ret' = NoReturn
    /\ UNCHANGED <<sub_beds, cycle_plans, next_plan_id, rotation_sequence,
                   cycles_per_year, current_cycle, distribution_defaults>>
    /\ UNCHANGED <<rd_vars, clock, gen_vars>>

\* rows of (garden_id, cycle) that assign_crops works on: the sub-bed is not
\* reserve and the planned category is in the rotation sequence
Considered(r, sb, categories) ==
    ~sb[r.sub_bed_id].is_reserve /\ r.planned_category \in Range(categories)

\* rotation_engine.py assign_crops, called with no other call running.  The
\* fields had_crops and replaced of ret are not returned by the code: they
\* record whether the call found planned crops on the rows it works on and
\* whether it changed one of them.
AssignCrops(garden_id, cycle) ==
    LET out == assign_crops(cycle_plans, sub_beds, rotation_sequence,
                            distribution_profiles, garden_id, cycle)
        work == {r \in PlansOf(cycle_plans, garden_id, cycle) :
                    Considered(r, sub_beds, rotation_sequence)}
    IN /\ cycle_plans' = out
       /\ ret' = [op |-> "assign_crops", garden_id |-> garden_id, cycle |-> cycle,
                  ok |-> TRUE,
                  had_crops |-> \E r \in work : r.planned_crop_id # NoCrop,
                  replaced |-> \E r \in work :
                                  r.planned_crop_id # NoCrop /\ r \notin out]
       /\ UNCHANGED <<sub_beds, next_plan_id, rotation_sequence, cycles_per_year,
                      current_cycle, distribution_profiles, distribution_defaults>>
       /\ UNCHANGED <<rd_vars, clock, gen_vars>>

\* what the operator enters in this specification
AssignFormChoices == {<<"Feuille", 1>>, <<"Feuille", 3>>}
AssignBootstrapCycles == {<<2025, "A">>, <<2025, "B">>}
AssignCycles == {<<2025, "B">>}
ProfileChoices ==
    {<< <<1, 50>>, <<2, 50>> >>,
     << <<1, 25>>, <<2, 75>> >>,
     << <<2, 25>> >>}
AssignSequenceChoices == {<<"Graine", "Racine">>}

\* a cycle of garden 1 that has no plan yet is bootstrapped
AssignBootstrap(cycle_input, form) ==
    /\ PlansOf(cycle_plans, 1, cycle_input) = {}
    /\ BootstrapSave(1, cycle_input, form)

NextAssign ==
    \/ \E c \in AssignBootstrapCycles :
          \E form \in [SubBedIds(sub_beds, 1) -> AssignFormChoices] :
             AssignBootstrap(c, form)
    \/ GenerateNextCycle(1)
    \/ \E b \in BOOLEAN : ToggleSubBedReserve(1, b)
    \/ \E seq \in AssignSequenceChoices : SaveRotationSequence(seq)
    \/ \E c \in AssignCycles, pr \in ProfileChoices : SaveDistributionProfiles(1, c, pr)
    \/ \E c \in AssignCycles : AssignCrops(1, c)

SpecAssign == Init /\ [][NextAssign]_vars

(***************************************************************************)
(* Claims about assign_crops (checked under SpecAssign).                   *)
(***************************************************************************)
\* the step is an assign_crops call that returned (True, None)
AssignSucceeded == ret'.op = "assign_crops" /\ ret'.ok

\* the table with every planned crop of (garden_id, cycle) set to null
WithoutPlannedCrops(plans, garden_id, cycle) ==
    {IF r.garden_id = garden_id /\ r.cycle = cycle
     THEN [r EXCEPT !.planned_crop_id = NoCrop] ELSE r : r \in plans}

\* what assign_crops produces from the state before the step when the cycle
\* holds no previously planned crop
FreshAssignment ==
    assign_crops(WithoutPlannedCrops(cycle_plans, ret'.garden_id, ret'.cycle),
                 sub_beds, rotation_sequence, distribution_profiles,
                 ret'.garden_id, ret'.cycle)

\* the call repeated at once on its own result changes nothing
RepeatedCallSame ==
    assign_crops(cycle_plans', sub_beds', rotation_sequence',
                 distribution_profiles', ret'.garden_id, ret'.cycle) = cycle_plans'

\* C6 as stated: a second call in a row yields the identical mapping, and the
\* mapping a call produces is the one it produces on a cycle with no
\* previously planned crops, for every slot of the cycle.
C6_NothingCarriesOver ==
    [][AssignSucceeded =>
          /\ RepeatedCallSame
          /\ cycle_plans' = FreshAssignment
    ]_vars

\* C6 as amended: a second call in a row yields the identical mapping, and
\* on the slots that are not reserve at the time of the call and whose
\* category is in the rotation sequence the mapping is the one produced on a
\* cycle with no previously planned crops; a slot that is reserve at the time
\* of the call, or whose category is outside the sequence, keeps the planned
\* crop it had.
C6_NothingCarriesOverOnWorkedSlots ==
    [][AssignSucceeded =>
          /\ RepeatedCallSame
          /\ {r.id : r \in cycle_plans'} = {r.id : r \in cycle_plans}
          /\ \A r \in cycle_plans :
                IF /\ r.garden_id = ret'.garden_id
                   /\ r.cycle = ret'.cycle
                   /\ Considered(r, sub_beds, rotation_sequence)
                THEN \E q \in cycle_plans' \cap FreshAssignment : q.id = r.id
                ELSE r \in cycle_plans'
    ]_vars

\* C6 witness: a call found planned crops on the slots it works on and
\* changed one of them, the profiles having changed since they were planned.
C6_Witness ==
    /\ ret.op = "assign_crops"
    /\ ret.ok
    /\ ret.had_crops
    /\ ret.replaced
    /\ \E r \in PlansOf(cycle_plans, ret.garden_id, ret.cycle) :
          Considered(r, sub_beds, rotation_sequence) /\ r.planned_crop_id # NoCrop

\* the slots each crop takes when the crops are served in the order of
\* crop_targets: its resolved count, or the slots that remain if fewer
RECURSIVE ExpectedTakes(_, _)
ExpectedTakes(targets, remaining) ==
    IF targets = <<>> THEN <<>>
    ELSE LET take == IF Head(targets)[2] <= 0 THEN 0
                     ELSE Min(Head(targets)[2], remaining)
         IN <<<<Head(targets)[1], take>>>> \o ExpectedTakes(Tail(targets), remaining - take)

\* the slots of `slots` are occupied as the resolved counts of the category's
\* profile rows say, and the slots they do not cover have a null planned crop
QuotasMet(slots, profs) ==
    LET pct_list == [k \in 1..Len(profs) |->
                        <<profs[k].crop_id, profs[k].target_percentage>>]
        resolved == resolve_distribution(pct_list, Cardinality(slots))
        takes == ExpectedTakes(crop_targets(resolved), Cardinality(slots))
        covered == SumSeq([k \in 1..Len(takes) |-> takes[k][2]])
    IN /\ \A k \in 1..Len(takes) :
             Cardinality({r \in slots : r.planned_crop_id = takes[k][1]}) = takes[k][2]
       /\ Cardinality({r \in slots : r.planned_crop_id = NoCrop}) =
             Cardinality(slots) - covered

\* C7 as stated: after assign_crops, in every category that has profile rows
\* each crop occupies its resolved count of the category's slots (fewer if
\* not enough remain) and every slot not covered has a null planned crop.
C7_QuotasOnAllSlots ==
    [][AssignSucceeded =>
          \A category \in Categories :
             LET profs == cat_profiles(distribution_profiles', ret'.garden_id,
                                       ret'.cycle, category)
                 slots == {r \in PlansOf(cycle_plans', ret'.garden_id, ret'.cycle) :
                              r.planned_category = category}
             IN (profs # <<>> /\ slots # {}) => QuotasMet(slots, profs)
    ]_vars

\* C7 as amended: after assign_crops, in every category of the rotation
\* sequence that has profile rows, among the category's slots that are not
\* reserve at the time of the call each crop occupies its resolved count
\* (fewer if not enough remain) and every such slot not covered has a null
\* planned crop.
C7_QuotasOnWorkedSlots ==
    [][AssignSucceeded =>
          \A category \in Range(rotation_sequence') :
             LET profs == cat_profiles(distribution_profiles', ret'.garden_id,
                                       ret'.cycle, category)
                 slots == {r \in PlansOf(cycle_plans', ret'.garden_id, ret'.cycle) :
                              /\ r.planned_category = category
                              /\ ~sub_beds'[r.sub_bed_id].is_reserve}
             IN (profs # <<>> /\ slots # {}) => QuotasMet(slots, profs)
    ]_vars

\* C7 witness: a category with profile rows whose resolved counts cover one
\* of its two worked slots; the other one is left with a null planned crop.
C7_Witness ==
    /\ ret.op = "assign_crops"
    /\ ret.ok
    /\ \E r, q \in PlansOf(cycle_plans, ret.garden_id, ret.cycle) :
          /\ r.planned_category = q.planned_category
          /\ Considered(r, sub_beds, rotation_sequence)
          /\ Considered(q, sub_beds, rotation_sequence)
          /\ cat_profiles(distribution_profiles, ret.garden_id, ret.cycle,
                          r.planned_category) # <<>>
          /\ r.planned_crop_id # NoCrop
          /\ q.planned_crop_id = NoCrop

(***************************************************************************)
(* Specification SpecDet: bootstraps, generations, profile saves and       *)
(* assign_crops calls on garden 1 while the clock runs.                    *)
(***************************************************************************)
\* time passes between two operations
Tick(timestamp) ==
    /\ timestamp # clock
    /\ clock' = timestamp
    /\ ret' = NoReturn
    /\ UNCHANGED <<db_vars, rd_vars, gen_vars>>

NextDet ==
    \/ \E c \in AssignBootstrapCycles :
          \E form \in [SubBedIds(sub_beds, 1) -> AssignFormChoices] :
             AssignBootstrap(c, form)
    \/ GenerateNextCycle(1)
    \/ \E c \in AssignCycles, pr \in ProfileChoices : SaveDistributionProfiles(1, c, pr)
    \/ \E c \in AssignCycles : AssignCrops(1, c)
    \/ \E t \in Timestamps : Tick(t)

SpecDet == Init /\ [][NextDet]_vars

(***************************************************************************)
(* Claims about repeatability (checked under SpecDet).                     *)
(***************************************************************************)
\* a row without the two columns that CURRENT_TIMESTAMP fills
Untimed(r) == [f \in DOMAIN r \ {"created_at", "updated_at"} |-> r[f]]

\* what a run of generate_next_cycle started from the stored state before the
\* step produces when the clock reads timestamp
RunAt(timestamp) ==
    generate_next_cycle(cycle_plans, sub_beds, rotation_sequence, cycles_per_year,
                        next_plan_id, current_cycle, ret'.garden_id, timestamp)

\* the run ends in the stored state that the step ended in
SameStoredState(out) ==
    /\ out.plans = cycle_plans'
    /\ out.next_id = next_plan_id'
    /\ out.current_cycle = current_cycle'

\* the same, the timestamps of the rows that the run inserted set aside
SameStoredStateUntimed(out) ==
    /\ out.plans \cap cycle_plans = cycle_plans' \cap cycle_plans
    /\ {Untimed(r) : r \in out.plans \ cycle_plans} =
          {Untimed(r) : r \in cycle_plans' \ cycle_plans}
    /\ out.next_id = next_plan_id'
    /\ out.current_cycle = current_cycle'

\* a run of assign_crops started from the stored state before the step ends
\* in the stored state that the step ended in
AssignRepeatable ==
    /\ cycle_plans' = assign_crops(cycle_plans, sub_beds, rotation_sequence,
                                   distribution_profiles, ret'.garden_id, ret'.cycle)
    /\ UNCHANGED <<sub_beds, next_plan_id, rotation_sequence, cycles_per_year,
                   current_cycle, distribution_profiles, distribution_defaults>>

\* the crops of a category in the order assign_crops serves them
ServedOrder(garden_id, cycle, category, n_beds) ==
    LET profs == cat_profiles(distribution_profiles, garden_id, cycle, category)
        pct_list == [k \in 1..Len(profs) |->
                        <<profs[k].crop_id, profs[k].target_percentage>>]
        targets == crop_targets(resolve_distribution(pct_list, n_beds))
    IN [k \in 1..Len(targets) |-> targets[k][1]]

\* crop a is served no later than crop b
ServedNoLater(order, a, b) ==
    \E i, j \in 1..Len(order) : order[i] = a /\ order[j] = b /\ i <= j

\* the score of the slot of row r for crop_id, from the history before the step
ScoreOf(r, crop_id) ==
    BedScore(cycle_plans, r.garden_id,
             past_cycles(cycle_plans, r.garden_id, r.cycle),
             r.planned_category, crop_id, r.sub_bed_id)

\* the rows that the assign_crops call of the step worked on
WorkedRows ==
    {r \in PlansOf(cycle_plans', ret'.garden_id, ret'.cycle) :
        Considered(r, sub_beds, rotation_sequence)}

\* of two slots with equal score for the crop that the later one received,
\* the one with the smaller sub_bed_id was served first
TieBySlotId ==
    \A s, t \in WorkedRows :
        (/\ s.planned_category = t.planned_category
         /\ s.sub_bed_id < t.sub_bed_id
         /\ t.planned_crop_id # NoCrop
         /\ ScoreOf(s, t.planned_crop_id) = ScoreOf(t, t.planned_crop_id))
        => /\ s.planned_crop_id # NoCrop
           /\ ServedNoLater(
                 ServedOrder(ret'.garden_id, ret'.cycle, t.planned_category,
                             Cardinality({q \in WorkedRows :
                                 q.planned_category = t.planned_category})),
                 s.planned_crop_id, t.planned_crop_id)

ScoreCycle == <<2025, "B">>
PastCycle(k) ==
    LET i == 2 * 2025 + 1 - k
    IN <<i \div 2, IF i % 2 = 0 THEN "A" ELSE "B">>

\* what the slot held in a past cycle: a category and the crop planned there
ScoreHistoryChoices ==
    {<<"Graine", 4>>} \cup {<<"Feuille", c>> : c \in CropIds}

\* the row of sub-bed 1 in a cycle
ScoreRecord(cycle, category, crop_id) ==
    [sub_bed_id |-> 1, garden_id |-> 1, cycle |-> cycle,
     planned_category |-> category, planned_crop_id |-> crop_id,
     actual_category |-> NULL, actual_crop_id |-> NoCrop, is_override |-> FALSE]

InitScore ==
    /\ rd_percentages = <<>>
    /\ rd_total_beds = 0
    /\ rd_result = <<>>
    /\ rd_done = FALSE
    /\ sub_beds = GardenRows(1, 1, SubBedsPerBed) \o GardenRows(2, 1, 1)
    /\ \E n \in 0..MaxHistory : \E h \in [1..n -> ScoreHistoryChoices] :
          /\ cycle_plans =
                {PlanRow(ScoreRecord(PastCycle(k), h[k][1], h[k][2]), n + 1 - k, 0) :
                    k \in 1..n}
                \cup {PlanRow(ScoreRecord(ScoreCycle, "Feuille", NoCrop), n + 1, 0)}
          /\ next_plan_id = n + 2
    /\ rotation_sequence = SeedSequence
    /\ cycles_per_year = "2"
    /\ current_cycle = ScoreCycle
    /\ distribution_profiles = {}
    /\ distribution_defaults = NoDefaults
    /\ ret = NoReturn
    /\ NoCalls
    /\ clock = 0

\* rotation_engine.py 439-471: the score of the bed for every candidate crop
ScoreBeds(garden_id, cycle, sid) ==
    LET bed == CHOOSE r \in PlansOf(cycle_plans, garden_id, cycle) : r.sub_bed_id = sid
        past == past_cycles(cycle_plans, garden_id, cycle)
    IN /\ ret = NoReturn
       /\ \E r \in PlansOf(cycle_plans, garden_id, cycle) : r.sub_bed_id = sid
       /\ ret' = [op |-> "scored_beds", garden_id |-> garden_id, cycle |-> cycle,
                  sub_bed_id |-> sid, category |-> bed.planned_category,
                  score |-> [c \in CropIds |->
                                BedScore(cycle_plans, garden_id, past,
                                         bed.planned_category, c, sid)]]
       /\ UNCHANGED <<db_vars, rd_vars, gen_vars, clock>>

NextScore == ScoreBeds(1, ScoreCycle, 1)

SpecScore == InitScore /\ [][NextScore]_vars

(***************************************************************************)
(* Claims about the score (checked under SpecScore).                       *)
(***************************************************************************)
\* the rows of the scored slot in the past cycles that were in the scored
\* category, and the most recent of them
CatHistory ==
    {r \in cycle_plans : /\ r.garden_id = ret.garden_id
                         /\ r.sub_bed_id = ret.sub_bed_id
                         /\ CycleLess(r.cycle, ret.cycle)
                         /\ HistoryCategory(r) = ret.category}
MostRecent(rows) == CHOOSE r \in rows : \A q \in rows : ~CycleLess(r.cycle, q.cycle)

\* crop b shares neither family nor species group with crop a
SharesNothing(a, b) ==
    /\ a # b
    /\ Crops[a].family = "" \/ Crops[a].family # Crops[b].family
    /\ Crops[a].species = "" \/ Crops[a].species # Crops[b].species

\* the score of the slot for crop_id from the rest of its history: the most
\* recent same-category occupancy is taken out of the category
RestScore(crop_id) ==
    LET last == MostRecent(CatHistory)
        rest == (cycle_plans \ {last})
                   \cup {[last EXCEPT !.planned_category = "Racine"]}
    IN BedScore(rest, ret.garden_id, past_cycles(rest, ret.garden_id, ret.cycle),
                ret.category, crop_id, ret.sub_bed_id)

RotateSequenceChoices ==
    {<<"Graine", "Feuille">>, <<"Feuille", "Graine", "Racine">>, SeedSequence}

InitRotate ==
    /\ rd_percentages = <<>>
    /\ rd_total_beds = 0
    /\ rd_result = <<>>
    /\ rd_done = FALSE
    /\ sub_beds = GardenRows(1, 1, SubBedsPerBed) \o GardenRows(2, 1, 1)
    /\ cycle_plans = {}
    /\ next_plan_id = 1
    /\ rotation_sequence \in RotateSequenceChoices
    /\ cycles_per_year = "2"
    /\ current_cycle = NoCycle
    /\ distribution_profiles = {}
    /\ distribution_defaults = NoDefaults
    /\ ret = NoReturn
    /\ NoCalls
    /\ clock = 0

\* the override form is sent for a row of the garden's only cycle
RotateOverride(plan_id, choice) ==
    /\ Cardinality(CyclesOf(cycle_plans, 1)) = 1
    /\ MapOverride(plan_id, choice)

NextRotate ==
    \/ \E c \in BootstrapCycles :
          \E form \in [SubBedIds(sub_beds, 1) -> FormChoices] :
             FirstBootstrap(1, c, form)
    \/ \E id \in 1..MaxOverridePlanId, ch \in OverrideChoices : RotateOverride(id, ch)
    \/ \E s \in ReserveChoices, b \in BOOLEAN : ToggleSubBedReserve(s, b)
    \/ GenerateBounded(1, MaxRotateCycles, MaxRotateCycles * SubBedsPerBed)

SpecRotate == InitRotate /\ [][NextRotate]_vars

(***************************************************************************)
(* Claims about the rotation wrap (checked under SpecRotate).              *)
(***************************************************************************)
\* the cycles of the garden, oldest first
CycleList(garden_id) ==
    LET S == CyclesOf(cycle_plans, garden_id)
    IN SortByKey(S, [c \in S |-> CycleKey(c)])

\* the rows of the same slot in two cycles of the garden: <<earlier, later>>
SlotPairs(garden_id, from, to) ==
    {<<q, r>> \in PlansOf(cycle_plans, garden_id, from)
                     \X PlansOf(cycle_plans, garden_id, to) :
        q.sub_bed_id = r.sub_bed_id}

\* a row of the last category is followed by a row of the first
LastFollowedByFirst ==
    \A i \in 1..(Len(CycleList(1)) - 1) :
        \A p \in SlotPairs(1, CycleList(1)[i], CycleList(1)[i + 1]) :
            EffectiveOf(p[1]) = rotation_sequence[Len(rotation_sequence)]
               => p[2].planned_category = rotation_sequence[1]

\* C13 as stated: n generations after any cycle, every slot is planned in
\* the category it effectively had in that cycle, n being the length of the
\* rotation sequence; the last category is followed by the first.
C13_BackAfterN ==
    /\ \A i \in 1..(Len(CycleList(1)) - Len(rotation_sequence)) :
          \A p \in SlotPairs(1, CycleList(1)[i],
                             CycleList(1)[i + Len(rotation_sequence)]) :
              p[2].planned_category = EffectiveOf(p[1])
    /\ LastFollowedByFirst

\* C13 as amended: the same for every slot whose effective category in the
\* starting cycle is one of the categories of the rotation sequence.
C13_BackAfterNInSequence ==
    /\ \A i \in 1..(Len(CycleList(1)) - Len(rotation_sequence)) :
          \A p \in SlotPairs(1, CycleList(1)[i],
                             CycleList(1)[i + Len(rotation_sequence)]) :
              EffectiveOf(p[1]) \in Range(rotation_sequence)
                 => p[2].planned_category = EffectiveOf(p[1])
    /\ LastFollowedByFirst

\* C13 witness: under the five-category sequence the garden holds a sixth
\* cycle, in which a slot overridden in the first cycle is planned in the
\* category it was overridden to, and another slot has gone from the last
\* category to the first.
C13_Witness ==
    /\ Len(rotation_sequence) = 5
    /\ Len(CycleList(1)) = 6
    /\ \E p \in SlotPairs(1, CycleList(1)[1], CycleList(1)[6]) :
          /\ p[1].is_override
          /\ p[1].actual_category # p[1].planned_category
          /\ p[2].planned_category = p[1].actual_category
    /\ \E p \in SlotPairs(1, CycleList(1)[1], CycleList(1)[2]) :
          /\ EffectiveOf(p[1]) = "Couverture"
          /\ p[2].planned_category = "Feuille"

(***************************************************************************)
(* compute_next_cycle_id on the text of an identifier: a string is the     *)
(* sequence of its characters.                                             *)
(***************************************************************************)
DigitChars == <<"0", "1", "2", "3", "4", "5", "6", "7", "8", "9">>

IsDigit(ch) == \E d \in 1..Len(DigitChars) : DigitChars[d] = ch
DigitValue(ch) == (CHOOSE d \in 1..Len(DigitChars) : DigitChars[d] = ch) - 1

\* int(text) for a text of digits and letters raises ValueError if the text
\* is empty or holds a character that is not a digit
IsInt(text) == text # <<>> /\ \A i \in 1..Len(text) : IsDigit(text[i])
RECURSIVE IntOfDigits(_, _)
IntOfDigits(text, acc) ==
    IF text = <<>> THEN acc
    ELSE IntOfDigits(Tail(text), acc * Len(DigitChars) + DigitValue(Head(text)))
int(text) == IntOfDigits(text, 0)

\* the ValueError that compute_next_cycle_id raises, as a text
ValueErrorText == <<"ValueError">>

\* str(n), f"{n}": the decimal digits of n >= 0, without padding
RECURSIVE str(_)
str(n) ==
    IF n < Len(DigitChars) THEN <<DigitChars[n + 1]>>
    ELSE str(n \div Len(DigitChars)) \o <<DigitChars[(n % Len(DigitChars)) + 1]>>

\* prev_cycle[:4], prev_cycle[4:] and prev_cycle[5:]
YearSlice(text) == SubSeq(text, 1, Min(4, Len(text)))
SuffixSlice(text) == SubSeq(text, 5, Len(text))
QuarterSlice(text) == SubSeq(text, 6, Len(text))

\* compute_next_cycle_id (rotation_engine.py 40-94) on texts, cpy
\* already converted by int()
compute_next_cycle_id_text_NoRoll(prev_cycle, cpy) ==
    LET year == int(YearSlice(prev_cycle))
        suffix == SuffixSlice(prev_cycle)
        quarter == int(QuarterSlice(prev_cycle))
    IN IF cpy \notin 1..4 \/ ~IsInt(YearSlice(prev_cycle)) THEN ValueErrorText
       ELSE CASE cpy = 1 -> str(year + 1)
              [] cpy = 2 ->
                    IF suffix = <<"A">> THEN str(year) \o <<"B">>
                    ELSE str(year) \o <<"A">>
              [] cpy = 3 ->
                    IF suffix = <<"A">> THEN str(year) \o <<"B">>
                    ELSE IF suffix = <<"B">> THEN str(year) \o <<"C">>
                    ELSE str(year) \o <<"A">>
              [] cpy = 4 ->
                    IF ~IsInt(QuarterSlice(prev_cycle)) THEN ValueErrorText
                    ELSE IF quarter < 4 THEN str(year) \o <<"Q">> \o str(quarter + 1)
                    ELSE str(year) \o <<"Q", "1">>
compute_next_cycle_id_text(prev_cycle, cpy) ==
    LET year == int(YearSlice(prev_cycle))
        suffix == SuffixSlice(prev_cycle)
        quarter == int(QuarterSlice(prev_cycle))
    IN IF cpy \notin 1..4 \/ ~IsInt(YearSlice(prev_cycle)) THEN ValueErrorText
       ELSE CASE cpy = 1 -> str(year + 1)
              [] cpy = 2 ->
                    IF suffix = <<"A">> THEN str(year) \o <<"B">>
                    ELSE str(year + 1) \o <<"A">>
              [] cpy = 3 ->
                    IF suffix = <<"A">> THEN str(year) \o <<"B">>
                    ELSE IF suffix = <<"B">> THEN str(year) \o <<"C">>
                    ELSE str(year + 1) \o <<"A">>
              [] cpy = 4 ->
                    IF ~IsInt(QuarterSlice(prev_cycle)) THEN ValueErrorText
                    ELSE IF quarter < 4 THEN str(year) \o <<"Q">> \o str(quarter + 1)
                    ELSE str(year + 1) \o <<"Q", "1">>

(***************************************************************************)
(* Specification SpecCycle: compute_next_cycle_id applied again and again  *)
(* to a well-formed identifier of the cadence.                             *)
(***************************************************************************)
\* the suffixes of a cadence, in the order of the year
CadenceSuffixes(cpy) ==
    CASE cpy = 1 -> << <<>> >>
      [] cpy = 2 -> << <<"A">>, <<"B">> >>
      [] cpy = 3 -> << <<"A">>, <<"B">>, <<"C">> >>
      [] cpy = 4 -> << <<"Q", "1">>, <<"Q", "2">>, <<"Q", "3">>, <<"Q", "4">> >>

\* the four-digit years that identifiers are drawn with
YearTexts ==
    {<<"0", "9", "9", "9">>, <<"1", "0", "0", "0">>, <<"2", "0", "2", "6">>,
     <<"9", "9", "9", "8">>, <<"9", "9", "9", "9">>}

InitCycle ==
    /\ rd_percentages = <<>>
    /\ rd_total_beds = 0
    /\ rd_result = <<>>
    /\ rd_done = FALSE
    /\ EmptyDatabase
    /\ \E k \in 1..4, y \in YearTexts : \E rank \in 1..k :
          ret = [op |-> "compute_next_cycle_id", cpy |-> k,
                 year |-> y, rank |-> rank,
                 value |-> y \o CadenceSuffixes(k)[rank], applied |-> 0]
    /\ NoCalls
    /\ clock = 0

\* the identifier returned is handed to compute_next_cycle_id again, until a
\* year of calls has been made
CallNextCycleId ==
    /\ ret.op = "compute_next_cycle_id"
    /\ ret.value # ValueErrorText
    /\ ret.applied < ret.cpy
    /\ ret' = [ret EXCEPT
                  !.value = compute_next_cycle_id_text(ret.value, ret.cpy),
                  !.applied = ret.applied + 1]
    /\ UNCHANGED <<db_vars, rd_vars, gen_vars, clock>>

NextCycle == CallNextCycleId

SpecCycle == InitCycle /\ [][NextCycle]_vars

(***************************************************************************)
(* Claims about compute_next_cycle_id (checked under SpecCycle).           *)
(***************************************************************************)
\* the leading digits of a text and what follows them
RECURSIVE LeadingDigits(_)
LeadingDigits(text) ==
    IF text = <<>> \/ ~IsDigit(Head(text)) THEN <<>>
    ELSE <<Head(text)>> \o LeadingDigits(Tail(text))
AfterDigits(text) == SubSeq(text, Len(LeadingDigits(text)) + 1, Len(text))

\* after n calls the identifier is the one n cycles after the first: the
\* cycles are counted from year 0 and the count is split into year and
\* suffix again
AdvancedByApplied ==
    LET period == int(ret.year) * ret.cpy + (ret.rank - 1) + ret.applied
    IN /\ ret.value # ValueErrorText
       /\ IsInt(LeadingDigits(ret.value))
       /\ int(LeadingDigits(ret.value)) = period \div ret.cpy
       /\ AfterDigits(ret.value) = CadenceSuffixes(ret.cpy)[(period % ret.cpy) + 1]

\* C14 as stated: from every well-formed identifier of the cadence, each call
\* gives the next suffix of the year or rolls to the first suffix of the
\* next year, and k calls give the same suffix one year later.
C14_AdvancesEveryIdentifier ==
    ret.op = "compute_next_cycle_id" => AdvancedByApplied

\* C14 as amended: the same for the identifiers whose year, and the year
\* after it, are written with four digits (1000 to 9998).
C14_AdvancesFourDigitYears ==
    (/\ ret.op = "compute_next_cycle_id"
     /\ Len(str(int(ret.year))) = 4
     /\ Len(str(int(ret.year) + 1)) = 4)
        => AdvancedByApplied

\* C14 witness: three calls from the last suffix of a year of cadence 3 have
\* rolled the year and come back to the last suffix.
C14_Witness ==
    /\ ret.op = "compute_next_cycle_id"
    /\ ret.cpy = 3
    /\ ret.rank = 3
    /\ ret.applied = 3
    /\ ret.year = <<"9", "9", "9", "8">>
    /\ ret.value = <<"9", "9", "9", "9", "C">>

(***************************************************************************)
(* Specification SpecAssignTxn: assign_crops run category by category      *)
(* inside its transaction, with storage faults.  cycle_plans is the        *)
(* committed table; the connection of the call sees its own uncommitted    *)
(* writes in txn.                                                          *)
(***************************************************************************)
\* conn.rollback(): the committed table is what remains
RollbackNone(committed, txn) == txn
Rollback(committed, txn) == committed

\* caller 1 is not inside a call
AssignIdle == calls[1].pc \in {"idle", "returned"}

\* assign_crops(garden_id, cycle) is entered and reads the rotation sequence,
\* the profiles and the plans (rotation_engine.py 289-361); a fault in these
\* reads is caught before anything is written.  The field before is not data
\* of the code: it keeps the table as it was when the call began.
CallAssign(garden_id, cycle, fault) ==
    /\ AssignIdle
    /\ IF fault
       THEN /\ calls' = [calls EXCEPT ![1] = [pc |-> "returned"]]
            /\ ret' = [op |-> "assign_crops", garden_id |-> garden_id,
                       cycle |-> cycle, ok |-> FALSE, had_crops |-> FALSE,
                       replaced |-> FALSE, written |-> FALSE]
       ELSE /\ calls' = [calls EXCEPT ![1] =
                           [pc |-> "categories", garden_id |-> garden_id,
                            cycle |-> cycle, categories |-> rotation_sequence,
                            all_plans |-> AssignPlans(cycle_plans, sub_beds,
                                                      garden_id, cycle),
                            profiles |-> distribution_profiles,
                            txn |-> cycle_plans, before |-> cycle_plans]]
            /\ ret' = NoReturn
    /\ UNCHANGED <<db_vars, rd_vars, write_lock, clock>>

\* what the call returns, with what it found and did
AssignReturn(c, ok, after) ==
    LET work == {r \in PlansOf(c.before, c.garden_id, c.cycle) :
                    \E b \in Range(c.all_plans) : b.id = r.id}
    IN [op |-> "assign_crops", garden_id |-> c.garden_id, cycle |-> c.cycle,
        ok |-> ok,
        had_crops |-> \E r \in work : r.planned_crop_id # NoCrop,
        replaced |-> \E r \in work : r.planned_crop_id # NoCrop /\ r \notin after,
        written |-> c.txn # c.before]

\* except Exception: conn.rollback(); return False, message
AssignFail ==
    /\ cycle_plans' = Rollback(cycle_plans, calls[1].txn)
    /\ ret' = AssignReturn(calls[1], FALSE, cycle_plans)
    /\ calls' = [calls EXCEPT ![1] = [pc |-> "returned"]]

\* one round of the loop over the categories (rotation_engine.py 361-483)
StepCategory(fault) ==
    /\ calls[1].pc = "categories"
    /\ calls[1].categories # <<>>
    /\ IF fault THEN AssignFail
       ELSE /\ calls' = [calls EXCEPT
                  ![1].txn = AssignCategories(<<Head(calls[1].categories)>>,
                                 calls[1].all_plans, calls[1].profiles,
                                 calls[1].txn, calls[1].garden_id, calls[1].cycle),
                  ![1].categories = Tail(calls[1].categories)]
            /\ ret' = NoReturn
            /\ UNCHANGED cycle_plans
    /\ UNCHANGED <<sub_beds, next_plan_id, rotation_sequence, cycles_per_year,
                   current_cycle, distribution_profiles, distribution_defaults, rd_vars, write_lock, clock>>

\* conn.commit() and return True, None
StepCommitAssign(fault) ==
    /\ calls[1].pc = "categories"
    /\ calls[1].categories = <<>>
    /\ IF fault THEN AssignFail
       ELSE /\ cycle_plans' = calls[1].txn
            /\ ret' = AssignReturn(calls[1], TRUE, calls[1].txn)
            /\ calls' = [calls EXCEPT ![1] = [pc |-> "returned"]]
    /\ UNCHANGED <<sub_beds, next_plan_id, rotation_sequence, cycles_per_year,
                   current_cycle, distribution_profiles, distribution_defaults, rd_vars, write_lock, clock>>

NextAssignTxn ==
    \/ /\ AssignIdle
       /\ \E c \in AssignBootstrapCycles :
             \E form \in [SubBedIds(sub_beds, 1) -> AssignFormChoices] :
                AssignBootstrap(c, form)
    \/ /\ AssignIdle
       /\ \E c \in AssignCycles, pr \in ProfileChoices :
             SaveDistributionProfiles(1, c, pr)
    \/ \E c \in AssignCycles, fault \in BOOLEAN : CallAssign(1, c, fault)
    \/ \E fault \in BOOLEAN : StepCategory(fault)
    \/ \E fault \in BOOLEAN : StepCommitAssign(fault)

SpecAssignTxn == Init /\ [][NextAssignTxn]_vars

(***************************************************************************)
(* Claims about faults in assign_crops (checked under SpecAssignTxn).      *)
(***************************************************************************)
\* the step ends a call that had got past its reads
AssignEnded == calls[1].pc = "categories" /\ calls'[1].pc = "returned"

\* a call that commits leaves what assign_crops computes in one piece
StepwiseAgrees ==
    [][(AssignEnded /\ ret'.ok) =>
          cycle_plans' = assign_crops(calls[1].before, sub_beds, rotation_sequence,
                                      distribution_profiles, ret'.garden_id,
                                      ret'.cycle)]_vars

\* C15: a call that meets a data-access error during or after the loop over
\* the categories returns a failure result and leaves every row of
\* cycle_plans as it was when the call began.
C15_FaultRollsBack ==
    [][AssignEnded =>
          /\ ret'.op = "assign_crops"
          /\ ret'.ok \/ cycle_plans' = calls[1].before
          /\ ret'.ok \/ cycle_plans' = cycle_plans
    ]_vars

\* C15 witness: a call failed after it had cleared or assigned planned crops
\* of the cycle, and the rows of the cycle hold planned crops.
C15_Witness ==
    /\ ret.op = "assign_crops"
    /\ ~ret.ok
    /\ ret.written
    /\ ret.had_crops
    /\ \E r \in PlansOf(cycle_plans, ret.garden_id, ret.cycle) :
          r.planned_crop_id # NoCrop

(***************************************************************************)
(* Bed-first initial allocator: _compute_auto_distribution                 *)
(* (routes/cycle.py 75-288).  Indexes into the rotation sequence and into  *)
(* the crop lists count from 0, as in the code.                            *)
(***************************************************************************)
\* get_crops() grouped by category: ORDER BY category, crop_name.  The crops
\* of the model are named so that the order of their names is that of their
\* ids.
crops_by_cat(category) ==
    LET S == {c \in CropIds : Crops[c].category = category}
    IN SortByKey(S, [c \in S |-> c])

\* _save_as_garden_defaults: the stored {category: {crop_name: pct}} built
\* from a list of <<crop_id, pct>>; a later pair of the same crop replaces an
\* earlier one, a crop that is not in table crops is dropped
StoredPairs(profiles) ==
    SelectSeq(profiles, LAMBDA pr : pr[1] \in CropIds)
StoredPct(stored, crop_id) ==
    LET K == {k \in 1..Len(stored) : stored[k][1] = crop_id}
    IN IF K = {} THEN 0
       ELSE stored[CHOOSE k \in K : \A j \in K : j <= k][2]

\* _load_default_distribution (routes/distribution.py 23-66): the stored
\* defaults of the garden if there are any, else 100 split evenly over the
\* crops of each category of the rotation sequence; the value is
\* cat_defaults.get(crop_name, 0) for every crop
load_default_distribution(stored, categories) ==
    [c \in CropIds |->
        IF stored # <<>> THEN StoredPct(stored, c)
        ELSE IF Crops[c].category \notin Range(categories) THEN 0
        ELSE LET cat_crops == crops_by_cat(Crops[c].category)
                 n == Len(cat_crops)
                 i == CHOOSE k \in 1..n : cat_crops[k] = c
             IN (100 \div n) + (IF i - 1 < 100 % n THEN 1 ELSE 0)]

\* Step 2: the quota of the category at 0-based index i
category_quotaNoRemainder(total_sub_beds, num_categories, i) ==
    total_sub_beds \div num_categories
category_quota(total_sub_beds, num_categories, i) ==
    (total_sub_beds \div num_categories)
       + (IF i < total_sub_beds % num_categories THEN 1 ELSE 0)

\* round(num / den) of Python 3: to the nearest integer, a half to the even one
round(num, den) ==
    LET q == num \div den
        r == num % den
    IN IF 2 * r > den THEN q + 1
       ELSE IF 2 * r < den THEN q
       ELSE IF q % 2 = 0 THEN q ELSE q + 1

\* the count of one crop in the loop over percentages
PctCountAll(pct, total_pct, cat_total, remaining) == remaining
PctCount(pct, total_pct, cat_total, remaining) ==
    Min(IF round(pct * cat_total, total_pct) < 0 THEN 0
        ELSE round(pct * cat_total, total_pct),
        remaining)

\* Step 3, total_pct > 0: crop_counts of the crops from index i on
RECURSIVE PctCounts(_, _, _, _, _, _)
PctCounts(cat_crops, i, pcts, total_pct, cat_total, remaining) ==
    IF i >= Len(cat_crops) THEN <<>>
    ELSE LET crop_id == cat_crops[i + 1]
             pct == pcts[crop_id]
             count == IF i = Len(cat_crops) - 1 \/ remaining <= 0
                      THEN remaining
                      ELSE PctCount(pct, total_pct, cat_total, remaining)
         IN IF pct = 0
            THEN PctCounts(cat_crops, i + 1, pcts, total_pct, cat_total, remaining)
            ELSE <<<<crop_id, count>>>>
                    \o PctCounts(cat_crops, i + 1, pcts, total_pct, cat_total,
                                 remaining - count)

\* "Remainder to last crop"
RemainderToLast(counts, cat_total) ==
    LET remaining == cat_total - SumSeq([k \in 1..Len(counts) |-> counts[k][2]])
    IN IF remaining > 0 /\ counts # <<>>
       THEN [counts EXCEPT ![Len(counts)] = <<counts[Len(counts)][1],
                                               counts[Len(counts)][2] + remaining>>]
       ELSE counts

\* Step 3: crop_counts of a category, a list of <<crop_id, count>>
crop_counts(category, pcts, cat_total) ==
    LET cat_crops == crops_by_cat(category)
        total_pct == SumSeq([k \in 1..Len(cat_crops) |-> pcts[cat_crops[k]]])
    IN IF cat_crops = <<>> THEN <<>>
       ELSE IF total_pct > 0
       THEN RemainderToLast(PctCounts(cat_crops, 0, pcts, total_pct, cat_total,
                                      cat_total),
                            cat_total)
       ELSE [k \in 1..Len(cat_crops) |->
                <<cat_crops[k],
                  (cat_total \div Len(cat_crops))
                     + (IF k - 1 < cat_total % Len(cat_crops) THEN 1 ELSE 0)>>]

\* crop_order_by_cat[category]: the crops whose count is positive
crop_order(counts) ==
    LET kept == SelectSeq(counts, LAMBDA cc : cc[2] > 0)
    IN [k \in 1..Len(kept) |-> kept[k][1]]

\* get_next_category_with_quota(from_index): the index of the first category
\* with quota left, looking from from_index round the sequence; found is
\* FALSE where the code returns (None, None)
get_next_categoryAnyQuota(quota, from_index) ==
    [found |-> TRUE, idx |-> from_index]
get_next_category_with_quota(quota, from_index) ==
    LET n == Len(quota)
        O == {o \in 0..(n - 1) : quota[((from_index + o) % n) + 1] > 0}
    IN IF O = {} THEN [found |-> FALSE, idx |-> from_index]
       ELSE [found |-> TRUE,
             idx |-> (from_index + (CHOOSE o \in O : \A x \in O : o <= x)) % n]

\* get_next_crop_with_quota(category, start_idx, avoid_crop): NoCrop where the
\* code returns None; avoid_crop is NoCrop where the code passes None
get_next_crop_with_quota(crop_ids, quota, start_idx, avoid_crop) ==
    LET n == Len(crop_ids)
        first == {o \in 0..(n - 1) :
                     /\ quota[crop_ids[((start_idx + o) % n) + 1]] > 0
                     /\ crop_ids[((start_idx + o) % n) + 1] # avoid_crop}
        second == {o \in 0..(n - 1) :
                     quota[crop_ids[((start_idx + o) % n) + 1]] > 0}
        Least(O) == CHOOSE o \in O : \A x \in O : o <= x
    IN IF crop_ids = <<>> THEN NoCrop
       ELSE IF first # {} THEN crop_ids[((start_idx + Least(first)) % n) + 1]
       ELSE IF second # {} THEN crop_ids[((start_idx + Least(second)) % n) + 1]
       ELSE NoCrop

\* "Advance primary category for next bed"
NextPrimaryStay(primary_cat_index, num_categories) == primary_cat_index
NextPrimary(primary_cat_index, num_categories) ==
    (primary_cat_index + 1) % num_categories

\* is the sub-bed a bed starter for the choice of the crop?
IsStarter(sb, sb_id) == sb[sb_id].sub_bed_position = 1

\* Step 4: the loop over the beds and their sub-beds, flattened: slots is
\* what remains of active_beds, st the local variables of the function; bed
\* is the bed_number of the sub-bed handled last (0 before the first)
RECURSIVE Allocate(_, _, _, _, _)
Allocate(slots, sb, categories, orders, st) ==
    IF slots = <<>> THEN st
    ELSE
    LET sb_id == Head(slots)
        n == Len(categories)
        is_first_sub_bed == sb[sb_id].bed_number # st.bed
        primary == get_next_category_with_quota(st.category_quota,
                                                st.primary_cat_index)
        current_cat_index == IF is_first_sub_bed THEN primary.idx
                             ELSE st.current_cat_index
        primary_cat_index == IF is_first_sub_bed THEN NextPrimary(primary.idx, n)
                             ELSE st.primary_cat_index
        cur == get_next_category_with_quota(st.category_quota, current_cat_index)
        category == categories[cur.idx + 1]
        crop_ids == orders[cur.idx + 1]
        avoid_crop == IF IsStarter(sb, sb_id) THEN st.prev_bed_starter_crop
                      ELSE NoCrop
        crop_id == get_next_crop_with_quota(crop_ids, st.crop_quota,
                       st.current_crop_index_by_cat[cur.idx + 1], avoid_crop)
        cat_left == st.category_quota[cur.idx + 1] - 1
        crop_left == IF crop_id = NoCrop THEN 0 ELSE st.crop_quota[crop_id] - 1
        current_idx == CHOOSE k \in 1..Len(crop_ids) : crop_ids[k] = crop_id
    IN IF (is_first_sub_bed /\ ~primary.found) \/ ~cur.found THEN st
       ELSE Allocate(Tail(slots), sb, categories, orders,
              [bed |-> sb[sb_id].bed_number,
               result |-> [x \in DOMAIN st.result \cup {sb_id} |->
                              IF x = sb_id
                              THEN [category |-> category, crop_id |-> crop_id]
                              ELSE st.result[x]],
               prev_bed_starter_crop |->
                   IF IsStarter(sb, sb_id) THEN crop_id
                   ELSE st.prev_bed_starter_crop,
               category_quota |-> [st.category_quota EXCEPT ![cur.idx + 1] = cat_left],
               crop_quota |-> IF crop_id = NoCrop THEN st.crop_quota
                              ELSE [st.crop_quota EXCEPT ![crop_id] = crop_left],
               current_crop_index_by_cat |->
                   IF crop_id # NoCrop /\ crop_left <= 0 /\ crop_id \in Range(crop_ids)
                   THEN [st.current_crop_index_by_cat EXCEPT
                            ![cur.idx + 1] = current_idx % Len(crop_ids)]
                   ELSE st.current_crop_index_by_cat,
               primary_cat_index |-> primary_cat_index,
               current_cat_index |-> IF cat_left <= 0 THEN (cur.idx + 1) % n
                                     ELSE current_cat_index])

\* the quotas of Steps 2 and 3 for the garden
AllocQuotas(sb, categories, stored, garden_id) ==
    LET active_beds == get_sub_beds_active(sb, garden_id)
        n == Len(categories)
        pcts == load_default_distribution(stored, categories)
        cat_q == [i \in 1..n |-> category_quota(Len(active_beds), n, i - 1)]
        counts == [i \in 1..n |-> crop_counts(categories[i], pcts, cat_q[i])]
    IN [category_quota |-> cat_q,
        crop_counts |-> counts,
        pcts |-> pcts,
        crop_quota |-> [c \in CropIds |->
            IF \E i \in 1..n : \E k \in 1..Len(counts[i]) : counts[i][k][1] = c
            THEN LET i == CHOOSE j \in 1..n :
                             \E k \in 1..Len(counts[j]) : counts[j][k][1] = c
                     k == CHOOSE j \in 1..Len(counts[i]) : counts[i][j][1] = c
                 IN counts[i][k][2]
            ELSE 0],
        orders |-> [i \in 1..n |-> crop_order(counts[i])]]

\* a distribution whose starting index also moves with the time of the run
compute_auto_distributionByClock(sb, categories, stored, garden_id, start_offset) ==
    LET active_beds == get_sub_beds_active(sb, garden_id)
        q == AllocQuotas(sb, categories, stored, garden_id)
        from == IF categories = <<>> THEN 0
                ELSE (start_offset + clock) % Len(categories)
    IN IF garden_id \notin Gardens \/ categories = <<>> \/ active_beds = <<>>
       THEN <<>>
       ELSE Allocate(active_beds, sb, categories, q.orders,
                [bed |-> 0,
                 result |-> <<>>,
                 prev_bed_starter_crop |-> NoCrop,
                 category_quota |-> q.category_quota,
                 crop_quota |-> q.crop_quota,
                 current_crop_index_by_cat |-> [i \in 1..Len(categories) |-> 0],
                 primary_cat_index |-> from,
                 current_cat_index |-> from]).result

\* the mapping {sub_bed_id: {'category', 'crop_id'}} that the function
\* returns when random.randint(0, num_categories - 1) gives start_offset
compute_auto_distribution(sb, categories, stored, garden_id, start_offset) ==
    LET active_beds == get_sub_beds_active(sb, garden_id)
        q == AllocQuotas(sb, categories, stored, garden_id)
    IN IF garden_id \notin Gardens \/ categories = <<>> \/ active_beds = <<>>
       THEN <<>>
       ELSE Allocate(active_beds, sb, categories, q.orders,
                [bed |-> 0,
                 result |-> <<>>,
                 prev_bed_starter_crop |-> NoCrop,
                 category_quota |-> q.category_quota,
                 crop_quota |-> q.crop_quota,
                 current_crop_index_by_cat |-> [i \in 1..Len(categories) |-> 0],
                 primary_cat_index |-> start_offset,
                 current_cat_index |-> start_offset]).result

(***************************************************************************)
(* The allocator on a garden that has no plan yet: the operator switches   *)
(* sub-beds between active and reserve, saves the rotation sequence and    *)
(* the distribution, and asks for the automatic distribution.              *)
(***************************************************************************)
\* a garden id that table gardens does not hold
NoSuchGarden == 3
AllocGardens == Gardens \cup {NoSuchGarden}
AllocCycle == <<2025, "A">>
AllocSequenceChoices ==
    {<<>>, <<"Feuille", "Graine">>, <<"Feuille", "Racine", "Graine">>, SeedSequence}
\* what the distribution form posts: the crops with a percentage above 0
AllocProfileChoices ==
    {<<>>,
     << <<1, 50>>, <<2, 50>> >>,
     << <<1, 75>>, <<2, 25>> >>,
     << <<1, 25>>, <<3, 25>> >>,
     << <<1, 50>>, <<2, 30>>, <<3, 20>> >>,
     << <<2, 100>> >>,
     << <<4, 100>> >>}

InitAlloc ==
    /\ rd_percentages = <<>>
    /\ rd_total_beds = 0
    /\ rd_result = <<>>
    /\ rd_done = FALSE
    /\ sub_beds = GardenRows(1, AllocBeds, SubBedsPerBed) \o GardenRows(2, 1, 1)
    /\ cycle_plans = {}
    /\ next_plan_id = 1
    /\ rotation_sequence = SeedSequence
    /\ cycles_per_year = "2"
    /\ current_cycle = NoCycle
    /\ distribution_profiles = {}
    /\ distribution_defaults = NoDefaults
    /\ ret = NoReturn
    /\ NoCalls
    /\ clock = 0

\* routes/distribution.py save_distribution: the profiles of the form are
\* saved for the cycle and then kept as the defaults of the garden
SaveDistribution(garden_id, cycle, profiles) ==
    /\ garden_id \in Gardens
    /\ LastProfileId(distribution_profiles) + Len(profiles) <= MaxProfileId
    /\ distribution_profiles' =
          save_distribution_profiles(distribution_profiles, garden_id, cycle, profiles)
    /\ distribution_defaults' =
          [distribution_defaults EXCEPT ![garden_id] = StoredPairs(profiles)]
    /\ ret' = NoReturn
    /\ UNCHANGED <<sub_beds, cycle_plans, next_plan_id, rotation_sequence,
                   cycles_per_year, current_cycle>>
    /\ UNCHANGED <<rd_vars, clock, gen_vars>>

\* the values random.randint(0, num_categories - 1) can give; the function
\* returns before the draw when there is nothing to distribute
StartOffsets(sb, categories, garden_id) ==
    IF garden_id \notin Gardens \/ categories = <<>>
          \/ get_sub_beds_active(sb, garden_id) = <<>>
    THEN {0}
    ELSE 0..(Len(categories) - 1)

\* routes/cycle.py api_auto_distribute.  The field crop_quota of ret is not
\* returned by the code: it records the crop quotas of Step 3.
ComputeAutoDistribution(garden_id, start_offset) ==
    /\ start_offset \in StartOffsets(sub_beds, rotation_sequence, garden_id)
    /\ ret' = [op |-> "auto_distribution", garden_id |-> garden_id,
               start_offset |-> start_offset,
               result |-> compute_auto_distribution(sub_beds, rotation_sequence,
                              IF garden_id \in Gardens
                              THEN distribution_defaults[garden_id] ELSE <<>>,
                              garden_id, start_offset),
               crop_quota |-> AllocQuotas(sub_beds, rotation_sequence,
                              IF garden_id \in Gardens
                              THEN distribution_defaults[garden_id] ELSE <<>>,
                              garden_id).crop_quota]
    /\ UNCHANGED <<db_vars, rd_vars, clock, gen_vars>>

NextAlloc ==
    \/ \E s \in SubBedIds(sub_beds, 1), b \in BOOLEAN : ToggleSubBedReserve(s, b)
    \/ \E seq \in AllocSequenceChoices : SaveRotationSequence(seq)
    \/ \E pr \in AllocProfileChoices : SaveDistribution(1, AllocCycle, pr)
    \/ \E g \in AllocGardens :
          \E o \in 0..(Len(SeedSequence) - 1) : ComputeAutoDistribution(g, o)

SpecAlloc == InitAlloc /\ [][NextAlloc]_vars

\* the slots of the garden that are not reserve
ActiveSlots(garden_id) ==
    {i \in SubBedIds(sub_beds, garden_id) : ~sub_beds[i].is_reserve}
AllocReturned == ret.op = "auto_distribution"

\* C16: the mapping the allocator returns has exactly one entry, a record of a
\* category and a crop (possibly none), for every active slot of the garden
\* and none for any other slot; it is empty when the garden does not exist,
\* has no active slot, or the rotation sequence is empty.
C16_OneEntryPerActiveSlot ==
    AllocReturned =>
       IF ret.garden_id \notin Gardens \/ rotation_sequence = <<>>
             \/ ActiveSlots(ret.garden_id) = {}
       THEN ret.result = <<>>
       ELSE /\ DOMAIN ret.result = ActiveSlots(ret.garden_id)
            /\ \A i \in DOMAIN ret.result :
                  /\ DOMAIN ret.result[i] = {"category", "crop_id"}
                  /\ ret.result[i].category \in Range(rotation_sequence)
                  /\ ret.result[i].crop_id \in CropIds \cup {NoCrop}

\* a distribution over a garden with a reserve slot, holding a slot with a
\* crop and a slot without
C16_Witness ==
    /\ AllocReturned
    /\ ret.garden_id = 1
    /\ \E i \in SubBedIds(sub_beds, 1) : sub_beds[i].is_reserve
    /\ \E i \in DOMAIN ret.result : ret.result[i].crop_id = NoCrop
    /\ \E i \in DOMAIN ret.result : ret.result[i].crop_id # NoCrop
    /\ Len(rotation_sequence) < Cardinality(ActiveSlots(1))

\* the beds of the garden that have an active slot, the first active slot of
\* a bed and the bed walked just before a bed
WalkedBeds(garden_id) == {sub_beds[i].bed_number : i \in ActiveSlots(garden_id)}
BedSlots(garden_id, b) == {i \in ActiveSlots(garden_id) : sub_beds[i].bed_number = b}
FirstSlot(garden_id, b) ==
    CHOOSE i \in BedSlots(garden_id, b) :
       \A j \in BedSlots(garden_id, b) :
          sub_beds[i].sub_bed_position <= sub_beds[j].sub_bed_position
PreviousBed(garden_id, b) ==
    CHOOSE x \in WalkedBeds(garden_id) :
       /\ x < b
       /\ \A y \in WalkedBeds(garden_id) : y < b => y <= x
IsFirstBed(garden_id, b) == \A y \in WalkedBeds(garden_id) : b <= y
\* 0-based index of a category in the rotation sequence
CatIndex(category) ==
    (CHOOSE i \in 1..Len(rotation_sequence) : rotation_sequence[i] = category) - 1
StartCat(garden_id, b) == CatIndex(ret.result[FirstSlot(garden_id, b)].category)
\* the quota of the category at 0-based index i: an even share of the active
\* slots, the earliest categories taking one slot more
EvenQuota(garden_id, i) ==
    (Cardinality(ActiveSlots(garden_id)) \div Len(rotation_sequence))
       + (IF i < Cardinality(ActiveSlots(garden_id)) % Len(rotation_sequence)
          THEN 1 ELSE 0)
\* what is left of that quota when the walk reaches bed b
LeftBefore(garden_id, b, i) ==
    EvenQuota(garden_id, i)
       - Cardinality({s \in ActiveSlots(garden_id) :
                         /\ sub_beds[s].bed_number < b
                         /\ ret.result[s].category = rotation_sequence[i + 1]})
\* the first category with quota left at bed b, looking from index from on
NextWithQuota(garden_id, b, from) ==
    LET n == Len(rotation_sequence)
        O == {o \in 0..(n - 1) : LeftBefore(garden_id, b, (from + o) % n) > 0}
    IN (from + (CHOOSE o \in O : \A x \in O : o <= x)) % n
AllocDone == AllocReturned /\ ret.result # <<>>

\* C17: walking the beds in physical order, the first slot of each bed gets
\* the next category of the rotation sequence after the primary category of
\* the bed before (the first bed: from the starting offset), skipping only
\* categories whose quota is exhausted; while every category has quota left
\* the first n beds start with n different categories, and two consecutive
\* beds start with the same category only when no other category has quota
\* left.
C17_PrimaryAdvancesEveryBed ==
    AllocDone =>
       LET g == ret.garden_id
           n == Len(rotation_sequence)
       IN /\ \A b \in WalkedBeds(g) :
                StartCat(g, b) =
                   NextWithQuota(g, b,
                      IF IsFirstBed(g, b) THEN ret.start_offset
                      ELSE (StartCat(g, PreviousBed(g, b)) + 1) % n)
          /\ \A b, c \in WalkedBeds(g) :
                /\ b < c
                /\ Cardinality({x \in WalkedBeds(g) : x <= c}) <= n
                /\ \A x \in WalkedBeds(g) : x <= c =>
                      \A i \in 0..(n - 1) : LeftBefore(g, x, i) > 0
                => StartCat(g, b) # StartCat(g, c)
          /\ \A b \in WalkedBeds(g) :
                /\ ~IsFirstBed(g, b)
                /\ StartCat(g, b) = StartCat(g, PreviousBed(g, b))
                => \A i \in 0..(n - 1) :
                      i # StartCat(g, b) => LeftBefore(g, b, i) <= 0

\* three beds walked under a sequence of three categories: the second skips
\* an exhausted category, the third starts with the category of the second
\* because it is the only one with quota left
C17_Witness ==
    /\ AllocDone
    /\ ret.garden_id = 1
    /\ Len(rotation_sequence) = 3
    /\ WalkedBeds(1) = 1..AllocBeds
    /\ StartCat(1, 2) = (StartCat(1, 1) + 2) % 3
    /\ StartCat(1, 3) = StartCat(1, 2)

\* the number of slots the result gives to the category at 0-based index i
SlotsGiven(i) ==
    Cardinality({s \in DOMAIN ret.result :
                    ret.result[s].category = rotation_sequence[i + 1]})

\* C18: whatever the starting offset, the number of slots the result gives to
\* a category is its quota: the active slots divided evenly by the length of
\* the sequence, the remainder going one slot each to the earliest
\* categories; so two categories differ by at most one slot.
C18_CategoryCountsAreQuotas ==
    AllocDone =>
       LET n == Len(rotation_sequence)
       IN /\ \A i \in 0..(n - 1) : SlotsGiven(i) = EvenQuota(ret.garden_id, i)
          /\ \A i, j \in 0..(n - 1) : SlotsGiven(i) - SlotsGiven(j) <= 1
          /\ \A i, j \in 0..(n - 1) : i < j => SlotsGiven(i) >= SlotsGiven(j)

\* five active slots over three categories, the walk starting at the last
\* category, which has the smaller quota
C18_Witness ==
    /\ AllocDone
    /\ ret.garden_id = 1
    /\ Len(rotation_sequence) = 3
    /\ Cardinality(ActiveSlots(1)) = 5
    /\ ret.start_offset = 2
    /\ SlotsGiven(0) = 2 /\ SlotsGiven(1) = 2 /\ SlotsGiven(2) = 1

\* the percentage defaults of the garden that made ret, and for a category
\* the list of (crop, percentage) of its crops that have one
DefaultsUsed ==
    load_default_distribution(distribution_defaults[ret.garden_id],
                              rotation_sequence)
CategoryPercentages(category) ==
    LET cat_crops == crops_by_cat(category)
        with_pct == SelectSeq(cat_crops, LAMBDA c : DefaultsUsed[c] > 0)
    IN [k \in 1..Len(with_pct) |-> <<with_pct[k], DefaultsUsed[with_pct[k]]>>]
\* what resolve_distribution gives a crop for these percentages
ResolvedCount(percentages, total_beds, crop_id) ==
    LET out == resolve_distribution(percentages, total_beds)
        K == {k \in 1..Len(out) : out[k][1] = crop_id}
    IN IF K = {} THEN 0 ELSE out[CHOOSE k \in K : TRUE][2]
SumPercentages(percentages) ==
    SumSeq([k \in 1..Len(percentages) |-> percentages[k][2]])
WholeShares(percentages, total_beds) ==
    \A k \in 1..Len(percentages) : (percentages[k][2] * total_beds) % 100 = 0
QuotasAreResolved(i) ==
    \A c \in Range(crops_by_cat(rotation_sequence[i + 1])) :
       ret.crop_quota[c] =
          ResolvedCount(CategoryPercentages(rotation_sequence[i + 1]),
                        EvenQuota(ret.garden_id, i), c)

\* C19 as stated: the crop quotas of a category computed from percentage
\* defaults are the counts resolve_distribution gives for the same
\* percentages and the slot quota of the category.
C19_QuotasAreLargestRemainder ==
    AllocDone =>
       \A i \in 0..(Len(rotation_sequence) - 1) :
          CategoryPercentages(rotation_sequence[i + 1]) # <<>>
             => QuotasAreResolved(i)

\* C19 amended: the crop quotas of a category computed from percentage
\* defaults sum to the slot quota of the category, and they are the counts
\* resolve_distribution gives when the percentages sum to 100 and every share
\* percentage * quota / 100 is a whole number.
C19_QuotasSumAndWholeShares ==
    AllocDone =>
       \A i \in 0..(Len(rotation_sequence) - 1) :
          LET percentages == CategoryPercentages(rotation_sequence[i + 1])
              cat_crops == crops_by_cat(rotation_sequence[i + 1])
              total == EvenQuota(ret.garden_id, i)
          IN percentages # <<>> =>
                /\ SumSeq([k \in 1..Len(cat_crops) |-> ret.crop_quota[cat_crops[k]]])
                      = total
                /\ \A c \in Range(cat_crops) : ret.crop_quota[c] >= 0
                /\ SumPercentages(percentages) = 100
                      /\ WholeShares(percentages, total)
                      => QuotasAreResolved(i)

\* two slots of Feuille under defaults of 50 and 50: one slot each
C19_Witness ==
    /\ AllocDone
    /\ ret.garden_id = 1
    /\ \E i \in 0..(Len(rotation_sequence) - 1) :
          /\ rotation_sequence[i + 1] = "Feuille"
          /\ EvenQuota(1, i) = 2
          /\ CategoryPercentages("Feuille") = << <<1, 50>>, <<2, 50>> >>
          /\ ret.crop_quota[1] = 1 /\ ret.crop_quota[2] = 1
          /\ QuotasAreResolved(i)

\* what is left of the quota of a crop when the walk reaches bed b
CropLeftBefore(garden_id, b, crop_id) ==
    ret.crop_quota[crop_id]
       - Cardinality({s \in ActiveSlots(garden_id) :
                         /\ sub_beds[s].bed_number < b
                         /\ ret.result[s].crop_id = crop_id})
StartCrop(garden_id, b) == ret.result[FirstSlot(garden_id, b)].crop_id
CropsOfStart(garden_id, b) ==
    {c \in CropIds :
        Crops[c].category = ret.result[FirstSlot(garden_id, b)].category}

\* C20: the crop given to the first slot of a bed is the crop that started the
\* bed before only when no other crop of the category of the slot has quota
\* left, and the slot is left without a crop only when no crop of its
\* category has quota left.
C20_StarterCropNotRepeated ==
    AllocDone =>
       LET g == ret.garden_id
       IN \A b \in WalkedBeds(g) :
             /\ (/\ ~IsFirstBed(g, b)
                 /\ StartCrop(g, b) # NoCrop
                 /\ StartCrop(g, b) = StartCrop(g, PreviousBed(g, b)))
                => \A c \in CropsOfStart(g, b) :
                      c # StartCrop(g, b) => CropLeftBefore(g, b, c) <= 0
             /\ StartCrop(g, b) = NoCrop
                => \A c \in CropsOfStart(g, b) : CropLeftBefore(g, b, c) <= 0

(***************************************************************************)
(* The automatic distribution asked for again and again, at different      *)
(* times, between changes of the garden, the sequence and the defaults.    *)
(***************************************************************************)
DetReserveChoices == {3, 4}
DetSequenceChoices == {<<"Feuille", "Graine">>, SeedSequence}
DetProfileChoices == {<<>>, << <<1, 50>>, <<2, 50>> >>, << <<1, 75>>, <<2, 25>> >>}

\* routes/cycle.py api_auto_distribute answered at time timestamp.  The field
\* before of ret is not returned by the code: it records the garden, the
\* starting offset and the mapping of the request answered just before, if
\* nothing was changed in between.
AutoDistributeAt(garden_id, start_offset, timestamp) ==
    /\ start_offset \in StartOffsets(sub_beds, rotation_sequence, garden_id)
    /\ clock' = timestamp
    /\ ret' = [op |-> "auto_distribution", garden_id |-> garden_id,
               start_offset |-> start_offset,
               result |-> compute_auto_distribution(sub_beds, rotation_sequence,
                              IF garden_id \in Gardens
                              THEN distribution_defaults[garden_id] ELSE <<>>,
                              garden_id, start_offset),
               at |-> timestamp,
               before |-> IF ret.op = "auto_distribution"
                          THEN <<ret.garden_id, ret.start_offset, ret.result, ret.at>>
                          ELSE <<>>]
    /\ UNCHANGED <<db_vars, rd_vars, gen_vars>>

NextAllocDet ==
    \/ \E s \in DetReserveChoices, b \in BOOLEAN : ToggleSubBedReserve(s, b)
    \/ \E seq \in DetSequenceChoices : SaveRotationSequence(seq)
    \/ \E pr \in DetProfileChoices : SaveDistribution(1, AllocCycle, pr)
    \/ \E g \in AllocGardens, t \in Timestamps :
          \E o \in 0..(Len(SeedSequence) - 1) : AutoDistributeAt(g, o, t)

SpecAllocDet == InitAlloc /\ [][NextAllocDet]_vars

\* the request answered just before was for the same garden
SameGardenAgain ==
    /\ AllocReturned
    /\ ret.before # <<>>
    /\ ret.before[1] = ret.garden_id

AssignDone == ret.op = "assign_crops" /\ ret.ok
\* the planned crop of a row is null, or a crop of the planned category of
\* the row that the profile of the cycle lists
CropFromProfile(r) ==
    \/ r.planned_crop_id = NoCrop
    \/ /\ r.planned_crop_id \in CropIds
       /\ Crops[r.planned_crop_id].category = r.planned_category
       /\ \E d \in distribution_profiles :
             /\ d.garden_id = r.garden_id
             /\ d.cycle = r.cycle
             /\ d.crop_id = r.planned_crop_id

\* C22 as stated: after assign_crops succeeds on a cycle, every slot of the
\* cycle whose planned category is in the rotation sequence has a planned
\* crop that is null or a crop of that category listed in the profile of the
\* cycle.
C22_CropsFromProfile ==
    AssignDone =>
       \A r \in PlansOf(cycle_plans, ret.garden_id, ret.cycle) :
          r.planned_category \in Range(rotation_sequence) => CropFromProfile(r)

\* C22 as amended: the same for every slot of the cycle that is not reserve
\* at the time of the call; a slot that is reserve then keeps the planned
\* crop it had.
C22_CropsFromProfileOnWorkedSlots ==
    AssignDone =>
       \A r \in PlansOf(cycle_plans, ret.garden_id, ret.cycle) :
          Considered(r, sub_beds, rotation_sequence) => CropFromProfile(r)

\* C22 witness: a call that replaced a planned crop and left a worked slot
\* with a crop of the profile, beside a reserve slot that kept its crop
C22_Witness ==
    /\ AssignDone
    /\ ret.replaced
    /\ \E r, q \in PlansOf(cycle_plans, ret.garden_id, ret.cycle) :
          /\ Considered(r, sub_beds, rotation_sequence)
          /\ r.planned_crop_id # NoCrop
          /\ CropFromProfile(r)
          /\ sub_beds[q.sub_bed_id].is_reserve
          /\ q.planned_crop_id # NoCrop

(***************************************************************************)
(* Specification SpecLookback: slot 1 of garden 1 is scored in category    *)
(* Feuille over a history of up to MaxLookback past cycles; slot 2 has a   *)
(* row in every cycle, slot 1 not always.                                  *)
(***************************************************************************)
\* what slot 1 held in a past cycle: planned category and crop, actual
\* category and crop, or no row at all (<<>>)
LookbackChoices ==
    {<<>>,
     <<"Feuille", 1, NULL, NoCrop>>,
     <<"Feuille", NoCrop, NULL, NoCrop>>,
     <<"Graine", 4, NULL, NoCrop>>,
     <<"Graine", 4, "Feuille", 2>>}

LookbackRecord(sid, cycle, h) ==
    [sub_bed_id |-> sid, garden_id |-> 1, cycle |-> cycle,
     planned_category |-> h[1], planned_crop_id |-> h[2],
     actual_category |-> h[3], actual_crop_id |-> h[4], is_override |-> FALSE]

InitLookback ==
    /\ rd_percentages = <<>>
    /\ rd_total_beds = 0
    /\ rd_result = <<>>
    /\ rd_done = FALSE
    /\ sub_beds = GardenRows(1, 1, SubBedsPerBed) \o GardenRows(2, 1, 1)
    /\ \E n \in 0..MaxLookback : \E h \in [1..n -> LookbackChoices] :
          /\ cycle_plans =
                {PlanRow(LookbackRecord(1, PastCycle(k), h[k]), 2 * k - 1, 0) :
                    k \in {j \in 1..n : h[j] # <<>>}}
                \cup {PlanRow(LookbackRecord(2, PastCycle(k),
                                  <<"Feuille", 3, NULL, NoCrop>>), 2 * k, 0) :
                         k \in 1..n}
                \cup {PlanRow(ScoreRecord(ScoreCycle, "Feuille", NoCrop), 2 * n + 1, 0)}
          /\ next_plan_id = 2 * n + 2
    /\ rotation_sequence = SeedSequence
    /\ cycles_per_year = "2"
    /\ current_cycle = ScoreCycle
    /\ distribution_profiles = {}
    /\ distribution_defaults = NoDefaults
    /\ ret = NoReturn
    /\ NoCalls
    /\ clock = 0

SpecLookback == InitLookback /\ [][NextScore]_vars

\* the penalty tables of the specification text, by cycles ago
TextSameCrop == <<-50, -30, -15, -5, -1>>
TextSameSpecies == <<-35, -20, -10, -3>>
TextSameFamily == <<-20, -10, -5>>
TextPenalty(table, cycles_ago) ==
    IF cycles_ago \in 1..Len(table) THEN table[cycles_ago] ELSE 0

\* the cycles of the garden strictly older than the scored one, and how many
\* cycles ago one of them is
OlderCycles ==
    {c \in CyclesOf(cycle_plans, ret.garden_id) : CycleLess(c, ret.cycle)}
CyclesAgo(c) == 1 + Cardinality({x \in OlderCycles : CycleLess(c, x)})
\* the entries of the scored slot that count
CountedEntries ==
    {r \in cycle_plans :
        /\ r.garden_id = ret.garden_id
        /\ r.sub_bed_id = ret.sub_bed_id
        /\ r.cycle \in OlderCycles
        /\ CyclesAgo(r.cycle) <= 5
        /\ (IF r.actual_category # NULL THEN r.actual_category
            ELSE r.planned_category) = ret.category}
EffectiveCrop(r) ==
    IF r.actual_crop_id # NoCrop THEN r.actual_crop_id ELSE r.planned_crop_id
SharesSpecies(a, b) ==
    a \in CropIds /\ b \in CropIds /\ Crops[a].species # ""
       /\ Crops[a].species = Crops[b].species
SharesFamily(a, b) ==
    a \in CropIds /\ b \in CropIds /\ Crops[a].family # ""
       /\ Crops[a].family = Crops[b].family
EntryValue(r, crop_id) ==
    IF EffectiveCrop(r) = crop_id THEN TextPenalty(TextSameCrop, CyclesAgo(r.cycle))
    ELSE IF SharesSpecies(EffectiveCrop(r), crop_id)
    THEN TextPenalty(TextSameSpecies, CyclesAgo(r.cycle))
    ELSE IF SharesFamily(EffectiveCrop(r), crop_id)
    THEN TextPenalty(TextSameFamily, CyclesAgo(r.cycle))
    ELSE 2
RECURSIVE SumEntries(_, _)
SumEntries(rows, crop_id) ==
    IF rows = {} THEN 0
    ELSE LET r == CHOOSE x \in rows : TRUE
         IN EntryValue(r, crop_id) + SumEntries(rows \ {r}, crop_id)

\* C23: the score of a slot for a candidate crop is the sum, over the entries
\* of the slot in the up to 5 most recent older cycles whose effective
\* category is the category being assigned, of the same-crop penalty for that
\* recency if the effective crop is the candidate, else the same-species
\* penalty, else the same-family penalty, else +2; penalties are zero beyond
\* their table and a slot with no such entry scores 0.
C23_ScoreIsSumOfEntries ==
    ret.op = "scored_beds" =>
       \A c \in CropIds :
          /\ ret.score[c] = SumEntries(CountedEntries, c)
          /\ CountedEntries = {} => ret.score[c] = 0

\* C23 witness: six older cycles, the oldest holding an entry of the
\* category that is too old to count, an entry whose actual values replace
\* the planned ones, a cycle without a row of the slot and a same-crop entry
\* four cycles ago
C23_Witness ==
    /\ ret.op = "scored_beds"
    /\ Cardinality(OlderCycles) = 6
    /\ \E r \in cycle_plans :
          /\ r.sub_bed_id = 1 /\ r.cycle \in OlderCycles
          /\ CyclesAgo(r.cycle) = 6 /\ r.planned_category = "Feuille"
    /\ \E r \in CountedEntries : r.actual_category = "Feuille"
    /\ \E r \in CountedEntries : CyclesAgo(r.cycle) = 4 /\ EffectiveCrop(r) = 1
    /\ \E r \in CountedEntries : EffectiveCrop(r) = NoCrop
    /\ \E c \in OlderCycles :
          CyclesAgo(c) < 5 /\ \A r \in PlansOf(cycle_plans, 1, c) : r.sub_bed_id # 1

(***************************************************************************)
(* Specification SpecOrder: garden 1 has AllocBeds slots, all bootstrapped *)
(* in category Feuille on two cycles; profiles are saved for the later     *)
(* cycle and assign_crops is called on it.                                 *)
(***************************************************************************)
OrderFormChoices == {<<"Feuille", 1>>, <<"Feuille", 2>>}
OrderProfileChoices ==
    {<< <<1, 50>>, <<2, 50>> >>,
     << <<1, 25>>, <<2, 75>> >>,
     << <<1, 50>>, <<2, 30>>, <<3, 20>> >>}

InitOrder ==
    /\ rd_percentages = <<>>
    /\ rd_total_beds = 0
    /\ rd_result = <<>>
    /\ rd_done = FALSE
    /\ sub_beds = GardenRows(1, AllocBeds, 1) \o GardenRows(2, 1, 1)
    /\ cycle_plans = {}
    /\ next_plan_id = 1
    /\ rotation_sequence = SeedSequence
    /\ cycles_per_year = "2"
    /\ current_cycle = NoCycle
    /\ distribution_profiles = {}
    /\ distribution_defaults = NoDefaults
    /\ ret = NoReturn
    /\ NoCalls
    /\ clock = 0

NextOrder ==
    \/ \E c \in AssignBootstrapCycles :
          \E form \in [SubBedIds(sub_beds, 1) -> OrderFormChoices] :
             AssignBootstrap(c, form)
    \/ \E b \in BOOLEAN : ToggleSubBedReserve(1, b)
    \/ \E c \in AssignCycles, pr \in OrderProfileChoices :
          SaveDistributionProfiles(1, c, pr)
    \/ \E c \in AssignCycles : AssignCrops(1, c)

SpecOrder == InitOrder /\ [][NextOrder]_vars

\* the slots of a category the call worked on, and the profile rows and
\* resolved counts of the category
WorkedSlots(category) ==
    {r \in PlansOf(cycle_plans, ret.garden_id, ret.cycle) :
        Considered(r, sub_beds, rotation_sequence) /\ r.planned_category = category}
ProfileRows(category) ==
    cat_profiles(distribution_profiles, ret.garden_id, ret.cycle, category)
ResolvedCounts(category) ==
    LET profs == ProfileRows(category)
    IN resolve_distribution(
          [k \in 1..Len(profs) |-> <<profs[k].crop_id, profs[k].target_percentage>>],
          Cardinality(WorkedSlots(category)))
\* crop j of the profile is processed before crop k
ProcessedBefore(category, j, k) ==
    LET res == ResolvedCounts(category)
    IN res[j][2] > res[k][2] \/ (res[j][2] = res[k][2] /\ j < k)
\* the slots that crop k got, and the slots still unassigned at its turn
SlotsOf(category, k) ==
    {r \in WorkedSlots(category) :
        r.planned_crop_id = ResolvedCounts(category)[k][1]}
FreeAtTurn(category, k) ==
    {r \in WorkedSlots(category) :
        ~\E j \in 1..Len(ResolvedCounts(category)) :
            /\ ProcessedBefore(category, j, k)
            /\ r \in SlotsOf(category, j)}
SlotScore(category, k, r) ==
    BedScore(cycle_plans, ret.garden_id,
             past_cycles(cycle_plans, ret.garden_id, ret.cycle),
             category, ResolvedCounts(category)[k][1], r.sub_bed_id)

\* C24: within a category the crops are processed by descending resolved
\* count, ties in profile order; each crop gets min(count, remaining) of the
\* slots still unassigned at its turn, and these are the first in the order
\* score descending, slot identifier ascending: no unassigned slot with a
\* higher score is passed over and no slot receives two crops.
C24_BestSlotsInCountOrder ==
    AssignDone =>
       \A category \in Range(rotation_sequence) :
          \A k \in 1..Len(ResolvedCounts(category)) :
             LET got == SlotsOf(category, k)
                 free == FreeAtTurn(category, k)
                 count == ResolvedCounts(category)[k][2]
             IN /\ got \subseteq free
                /\ Cardinality(got) = Min(count, Cardinality(free))
                /\ \A s \in got : \A u \in free \ got :
                      \/ SlotScore(category, k, s) > SlotScore(category, k, u)
                      \/ /\ SlotScore(category, k, s) = SlotScore(category, k, u)
                         /\ s.sub_bed_id < u.sub_bed_id

\* C24 witness: the second crop of the profile has the larger count and is
\* processed first; the first crop then gets a slot although another slot,
\* taken by then, scores higher for it
C24_Witness ==
    /\ AssignDone
    /\ \E j, k \in 1..Len(ResolvedCounts("Feuille")) :
          /\ j < k
          /\ ProcessedBefore("Feuille", k, j)
          /\ \E s \in SlotsOf("Feuille", j), t \in SlotsOf("Feuille", k) :
                SlotScore("Feuille", j, t) > SlotScore("Feuille", j, s)

(***************************************************************************)
(* Specification SpecRepeat: generate_next_cycle under the rotation        *)
(* sequences that save_rotation_sequence stores, a sequence of one         *)
(* category among them.                                                    *)
(***************************************************************************)
RepeatSequenceChoices == {<<"Feuille">>, <<"Graine", "Feuille">>}

NextRepeat ==
    \/ \E c \in BootstrapCycles :
          \E form \in [SubBedIds(sub_beds, 1) -> FormChoices] :
             FirstBootstrap(1, c, form)
    \/ \E id \in 1..MaxOverridePlanId, ch \in OverrideChoices : MapOverride(id, ch)
    \/ \E seq \in RepeatSequenceChoices : SaveRotationSequence(seq)
    \/ GenerateNextCycle(1)

SpecRepeat == Init /\ [][NextRepeat]_vars

delete_cycle_plans(plans, garden_id, cycle) ==
    {r \in plans : ~(r.garden_id = garden_id /\ r.cycle = cycle)}

delete_distribution_profiles(rows, garden_id, cycle) ==
    {d \in rows : ~(d.garden_id = garden_id /\ d.cycle = cycle)}

\* get_garden: the gardens that create_garden made
get_garden(sb, garden_id) == SubBedIds(sb, garden_id) # {}

\* if prev_cycle: update_setting('current_cycle', prev_cycle)
RevertCurrentCycleAlways(cur, prev_cycle) == prev_cycle
RevertCurrentCycle(cur, prev_cycle) ==
    IF prev_cycle # NoCycle THEN prev_cycle ELSE cur

\* undo_cycle, called with no other call running
UndoCycle(garden_id) ==
    LET latest_cycle == get_latest_cycle(cycle_plans, garden_id)
        plans == delete_cycle_plans(cycle_plans, garden_id, latest_cycle)
        prev_cycle == get_latest_cycle(plans, garden_id)
    IN /\ IF ~get_garden(sub_beds, garden_id) \/ latest_cycle = NoCycle
          THEN /\ ret' = [op |-> "undo_cycle", garden_id |-> garden_id,
                          ok |-> FALSE, latest_cycle |-> NoCycle]
               /\ UNCHANGED <<cycle_plans, distribution_profiles, current_cycle>>
          ELSE /\ cycle_plans' = plans
               /\ distribution_profiles' =
                     delete_distribution_profiles(distribution_profiles,
                                                  garden_id, latest_cycle)
               /\ current_cycle' = RevertCurrentCycle(current_cycle, prev_cycle)
               /\ ret' = [op |-> "undo_cycle", garden_id |-> garden_id,
                          ok |-> TRUE, latest_cycle |-> latest_cycle]
       /\ UNCHANGED <<sub_beds, next_plan_id, rotation_sequence, cycles_per_year,
                      distribution_defaults>>
       /\ UNCHANGED <<rd_vars, clock, gen_vars>>

(***************************************************************************)
(* Specification SpecUndo: bootstrap, generate_next_cycle and undo_cycle   *)
(* on two gardens, with reserve flags and profiles changing in between.    *)
(* The return of generate_next_cycle also records the rows the garden had  *)
(* before the call (plans_before is not data of the code).                 *)
(***************************************************************************)
UndoFormChoices == {<<"Feuille", 1>>}
UndoReserveChoices == {3}
\* the (garden, cycle) pairs whose distribution the operator saves, once each
UndoProfileTargets == {<<1, <<2025, "A">> >>, <<1, <<2025, "B">> >>, <<2, <<2025, "B">> >>}
UndoProfileChoices == {<< <<1, 100>> >>}

GenerateRecorded(garden_id) ==
    LET out == generate_next_cycle(cycle_plans, sub_beds, rotation_sequence,
                                   cycles_per_year, next_plan_id, current_cycle,
                                   garden_id, clock)
    IN /\ Cardinality(CyclesOf(cycle_plans, garden_id)) < MaxCycles
       /\ out.next_id - 1 <= MaxPlanId
       /\ cycle_plans' = out.plans
       /\ next_plan_id' = out.next_id
       /\ current_cycle' = out.current_cycle
       /\ ret' = [op |-> "generate_next_cycle", garden_id |-> garden_id,
                  ok |-> out.ok, error |-> out.error, new_cycle |-> out.new_cycle,
                  plans_before |-> {r \in cycle_plans : r.garden_id = garden_id}]
       /\ UNCHANGED <<sub_beds, rotation_sequence, cycles_per_year,
                      distribution_profiles, distribution_defaults>>
       /\ UNCHANGED <<rd_vars, clock, gen_vars>>

\* the distribution form is saved for a garden and cycle that has no profile
SaveProfilesOnce(garden_id, cycle, profiles) ==
    /\ ~\E d \in distribution_profiles : d.garden_id = garden_id /\ d.cycle = cycle
    /\ SaveDistributionProfiles(garden_id, cycle, profiles)

NextUndo ==
    \/ \E g \in Gardens, c \in BootstrapCycles :
          \E form \in [SubBedIds(sub_beds, g) -> UndoFormChoices] :
             FirstBootstrap(g, c, form)
    \/ \E g \in Gardens : GenerateRecorded(g)
    \/ \E g \in AllocGardens : UndoCycle(g)
    \/ \E s \in UndoReserveChoices, b \in BOOLEAN : ToggleSubBedReserve(s, b)
    \/ \E t \in UndoProfileTargets, pr \in UndoProfileChoices :
          SaveProfilesOnce(t[1], t[2], pr)

SpecUndo == Init /\ [][NextUndo]_vars

\* the step is an undo_cycle call that found a cycle to undo
UndoSucceeded == ret'.op = "undo_cycle" /\ ret'.ok

\* the step deletes the plan rows and the profile rows of the garden's most
\* recent cycle, and no other row of any table
UndoDeletesLatestOnly ==
    LET g == ret'.garden_id
        latest == get_latest_cycle(cycle_plans, g)
    IN /\ cycle_plans' \subseteq cycle_plans
       /\ distribution_profiles' \subseteq distribution_profiles
       /\ \A r \in cycle_plans :
             r \in cycle_plans' <=> ~(r.garden_id = g /\ r.cycle = latest)
       /\ \A d \in distribution_profiles :
             d \in distribution_profiles' <=> ~(d.garden_id = g /\ d.cycle = latest)
       /\ UNCHANGED <<sub_beds, rotation_sequence>>

\* the undo follows a successful generate_next_cycle of the same garden
UndoAfterGenerate ==
    /\ UndoSucceeded
    /\ ret.op = "generate_next_cycle"
    /\ ret.ok
    /\ ret.garden_id = ret'.garden_id

\* the plan rows of the garden are again what they were before the generation
UndoRestores ==
    {r \in cycle_plans' : r.garden_id = ret'.garden_id} = ret.plans_before

\* C26: undoing the most recent cycle of a garden deletes every plan row and
\* every profile row of that cycle for that garden and nothing else, so
\* generate_next_cycle followed by undo restores the plan rows of the garden
\* to what they were before the generation.
C26_UndoRestoresBeforeGenerate ==
    [][/\ UndoSucceeded => UndoDeletesLatestOnly
       /\ UndoAfterGenerate => UndoRestores
    ]_vars

CharOrder ==
    <<"0", "1", "2", "3", "4", "5", "6", "7", "8", "9", "A", "B", "C", "Q", "Z">>
CharRank(ch) == CHOOSE k \in 1..Len(CharOrder) : CharOrder[k] = ch

\* a < b for two texts: ORDER BY cycle
RECURSIVE TextLess(_, _)
TextLess(a, b) ==
    IF b = <<>> THEN FALSE
    ELSE IF a = <<>> THEN TRUE
    ELSE IF Head(a) # Head(b) THEN CharRank(Head(a)) < CharRank(Head(b))
    ELSE TextLess(Tail(a), Tail(b))

\* SELECT DISTINCT cycle ... ORDER BY cycle DESC LIMIT 1, on a garden that
\* has a cycle
get_earliest_cycle_text(cycles) ==
    CHOOSE c \in cycles : \A d \in cycles \ {c} : TextLess(c, d)
get_latest_cycle_text(cycles) ==
    CHOOSE c \in cycles : \A d \in cycles \ {c} : TextLess(d, c)

\* generate_next_cycle as far as identifiers go: the ValueError of
\* compute_next_cycle_id is caught and returned as an error, an identifier
\* the garden has is refused, any other one gets the rows of the new cycle
generate_cycle_text(cycles, cycles_per_year_setting) ==
    LET prev_cycle == get_latest_cycle_text(cycles)
        new_cycle == compute_next_cycle_id_text(prev_cycle,
                                                ParseInt(cycles_per_year_setting))
    IN IF new_cycle = ValueErrorText
       THEN [outcome |-> "error", prev_cycle |-> prev_cycle,
             new_cycle |-> <<>>, cycles |-> cycles]
       ELSE IF new_cycle \in cycles
       THEN [outcome |-> "exists", prev_cycle |-> prev_cycle,
             new_cycle |-> new_cycle, cycles |-> cycles]
       ELSE [outcome |-> "created", prev_cycle |-> prev_cycle,
             new_cycle |-> new_cycle, cycles |-> cycles \cup {new_cycle}]

\* the most identifiers the garden holds
MaxTextCycles == 3

\* identifiers that bootstrap_save accepts (four digits and a suffix of
\* letters and digits) beside the well-formed ones
OddIdentifiers == {<<"2", "0", "2", "6", "Z", "2">>}

\* the identifier the garden is bootstrapped with
FirstIdentifiers ==
    OddIdentifiers \cup
       UNION {{y \o CadenceSuffixes(k)[rank] : y \in YearTexts, rank \in 1..k} :
                 k \in 1..4}

InitLatest ==
    /\ rd_percentages = <<>>
    /\ rd_total_beds = 0
    /\ rd_result = <<>>
    /\ rd_done = FALSE
    /\ EmptyDatabase
    /\ \E first \in FirstIdentifiers :
          \E v \in CadenceValues :
             ret = [op |-> "bootstrap", cpy |-> v, before |-> {},
                    outcome |-> "none", prev_cycle |-> <<>>, new_cycle |-> <<>>,
                    cycles |-> {first}]
    /\ NoCalls
    /\ clock = 0

GenerateText ==
    LET out == generate_cycle_text(ret.cycles, ret.cpy)
    IN /\ Cardinality(ret.cycles) < MaxTextCycles
       /\ ret' = [op |-> "generate_next_cycle", cpy |-> ret.cpy,
                  before |-> ret.cycles, outcome |-> out.outcome,
                  prev_cycle |-> out.prev_cycle, new_cycle |-> out.new_cycle,
                  cycles |-> out.cycles]
       /\ UNCHANGED <<db_vars, rd_vars, gen_vars, clock>>

SetCadenceText(value) ==
    /\ ret.cpy # value
    /\ ret' = [ret EXCEPT !.op = "update_setting", !.cpy = value]
    /\ UNCHANGED <<db_vars, rd_vars, gen_vars, clock>>

NextLatest ==
    \/ GenerateText
    \/ \E v \in CadenceValues : SetCadenceText(v)

SpecLatest == InitLatest /\ [][NextLatest]_vars

\* generate_next_cycle computed an identifier
IdentifierComputed ==
    ret.op = "generate_next_cycle" /\ ret.outcome \in {"created", "exists"}

\* the identifier computed is greater in string order than every identifier
\* the garden had, it is the one read as most recent afterwards, and it was
\* not refused as existing
NewIsGreatest ==
    /\ \A c \in ret.before : TextLess(c, ret.new_cycle)
    /\ get_latest_cycle_text(ret.cycles) = ret.new_cycle
    /\ ret.outcome = "created"

\* an identifier of one of the four documented forms
WellFormed(text) ==
    /\ Len(YearSlice(text)) = 4
    /\ IsInt(YearSlice(text))
    /\ \E k \in 1..4 : \E rank \in 1..k : SuffixSlice(text) = CadenceSuffixes(k)[rank]

\* C27: in sequential execution the identifier computed by
\* generate_next_cycle is strictly greater, in string order, than every
\* identifier the garden has, also after the cadence has changed; so the new
\* cycle is the one read as most recent and the cycle-already-exists failure
\* does not occur.
C27_NewIdentifierIsGreatest ==
    IdentifierComputed => NewIsGreatest

\* C27 as amended: the same when the most recent identifier of the garden
\* has one of the documented forms and the year after its year is written
\* with four digits at most.
C27_GreatestFromWellFormed ==
    (/\ IdentifierComputed
     /\ WellFormed(ret.prev_cycle)
     /\ Len(str(int(YearSlice(ret.prev_cycle)) + 1)) <= 4)
        => NewIsGreatest

\* C27 witness: the garden holds three identifiers; the last one was computed
\* under cadence 2 from an identifier of cadence 4, after the setting changed.
C27_Witness ==
    /\ IdentifierComputed
    /\ Cardinality(ret.cycles) = MaxTextCycles
    /\ ret.cpy = "2"
    /\ SuffixSlice(ret.prev_cycle) = <<"Q", "2">>
    /\ WellFormed(ret.prev_cycle)
    /\ NewIsGreatest

\* the slots that have a row in a cycle of the garden
PlanSlots(garden_id, cycle) ==
    {r.sub_bed_id : r \in PlansOf(cycle_plans, garden_id, cycle)}

FrameFormChoices == {<<"Feuille", 1>>}
FrameProfileChoices == {<< <<1, 50>>, <<2, 50>> >>, << <<2, 25>> >>}
FrameProfileTargets == {<<1, <<2025, "B">> >>, <<2, <<2025, "B">> >>}

\* a cycle that the garden has no plan for is bootstrapped
FrameBootstrap(garden_id, cycle_input, form) ==
    /\ PlansOf(cycle_plans, garden_id, cycle_input) = {}
    /\ BootstrapSave(garden_id, cycle_input, form)

NextFrame ==
    \/ \E g \in Gardens, c \in AssignBootstrapCycles :
          \E form \in [SubBedIds(sub_beds, g) -> FrameFormChoices] :
             FrameBootstrap(g, c, form)
    \/ \E id \in 1..MaxOverridePlanId, ch \in OverrideChoices : MapOverride(id, ch)
    \/ \E t \in FrameProfileTargets, pr \in FrameProfileChoices :
          SaveProfilesOnce(t[1], t[2], pr)
    \/ \E g \in Gardens, c \in AssignCycles : AssignCrops(g, c)

SpecFrame == Init /\ [][NextFrame]_vars

\* C30: assign_crops(garden, cycle) changes only the planned crop of rows of
\* that garden and that cycle: no planned category, actual category, actual
\* crop or override flag changes, no row of another cycle or garden changes,
\* no row is added or removed, and the distribution profiles and the
\* current-cycle pointer stay as they were.
C30_OnlyPlannedCropOfCycle ==
    [][AssignSucceeded =>
          /\ Cardinality(cycle_plans') = Cardinality(cycle_plans)
          /\ \A r \in cycle_plans :
                \E q \in cycle_plans' :
                   /\ q.id = r.id
                   /\ q = [r EXCEPT !.planned_crop_id = q.planned_crop_id]
                   /\ (r.garden_id # ret'.garden_id \/ r.cycle # ret'.cycle) => q = r
          /\ UNCHANGED <<distribution_profiles, current_cycle>>
    ]_vars

\* C30 witness: the call replaced a planned crop of its cycle while the
\* garden has an overridden row in that cycle, and the other garden has a
\* row with a planned crop and profile rows in the same cycle.
C30_Witness ==
    /\ ret.op = "assign_crops"
    /\ ret.ok
    /\ ret.replaced
    /\ \E r \in PlansOf(cycle_plans, ret.garden_id, ret.cycle) :
          r.is_override /\ r.actual_crop_id # r.planned_crop_id
    /\ \E r \in cycle_plans :
          /\ r.garden_id # ret.garden_id
          /\ r.cycle = ret.cycle
          /\ r.planned_crop_id # NoCrop
    /\ \E d \in distribution_profiles :
          d.garden_id # ret.garden_id /\ d.cycle = ret.cycle

====
